---- MODULE Spec2Model ----
(***************************************************************************)
(* Model of the template interpreter of the poster renderer               *)
(* (src/poster/renderer.py, PosterRenderer._render_template_content).     *)
(*                                                                         *)
(* Text is a sequence of one-character strings, so that the regular        *)
(* expressions of the source are matched character by character.           *)
(* A context value is a tagged record:                                     *)
(*   [t |-> "none"]            None (also what resolve_value gives for an  *)
(*                             absent path)                                *)
(*   [t |-> "bool", v |-> b]   bool                                        *)
(*   [t |-> "int",  v |-> n]   int                                         *)
(*   [t |-> "float", v |-> m]  the float m / 10, m an integer: the floats  *)
(*                             with one decimal digit, which str() writes  *)
(*                             in positional notation                      *)
(*   [t |-> "str",  v |-> s]   str, s a sequence of characters             *)
(*   [t |-> "list", v |-> l]   list, l a sequence of values                *)
(*   [t |-> "dict", v |-> d]   dict, d a sequence of <<key, value>> pairs  *)
(*                             in insertion order, keys pairwise distinct  *)
(***************************************************************************)
EXTENDS Integers, Sequences, FiniteSets, TLC

\* one call of _render_template_content: its arguments, the injected fault,
\* its local content and its position ("idle" where no call is modelled)
VARIABLES template_content, data, fault, content, pc

\* the activations of process_template of that call, the innermost last,
\* where the call is followed match by match (empty where it is not), and the
\* number of steps taken so far, modulo 2
VARIABLES frames, step_parity

\* calls of _render_template_content that run side by side, each with its own
\* arguments and locals
VARIABLES calls

\* a PosterCache (src/poster/cache.py): its lock, its index in memory, the
\* index file, the poster files that exist, the indexed posters that are older
\* than max_days, the call stack of the thread that runs the coroutines, and
\* what the last call returned
VARIABLES lock, cache_index, cache_file, files, expired, stack, returned

\* a DailyAnimeScheduler (src/utils/scheduler.py), the global one: its flag
\* running, its list of tasks, the position of the coroutine _scheduler_loop
\* that scheduler_task runs, the wall clock in minutes, the event handlers of
\* the plugin that have returned, in that order, the chat ids of the last
\* call of a push function, and the errors logged by the last step of the loop
VARIABLES running, tasks, scheduler_task, now, handled, pushed, logged

\* a MemoryCache (src/utils/cache_manager.py): its max_size, its _cache in
\* insertion order, its _last_cleanup, the clock in seconds, the last call of
\* set, delete or clear, and the last call with what it returned
VARIABLES mem_max_size, mem_cache, mem_last_cleanup, mem_time, mem_written,
          mem_returned

renderVars == <<template_content, data, fault, content, pc>>

cacheVars == <<lock, cache_index, cache_file, files, expired, stack, returned>>

schedVars == <<running, tasks, scheduler_task, now, handled, pushed, logged>>

memVars ==
    <<mem_max_size, mem_cache, mem_last_cleanup, mem_time, mem_written,
      mem_returned>>

vars == <<renderVars, frames, step_parity, calls, cacheVars, schedVars, memVars>>

\* the variables outside the one call, outside the call followed match by
\* match, outside the calls side by side, outside the poster cache, outside
\* the scheduler and outside the memory cache
notRender == <<frames, step_parity, calls, cacheVars, schedVars, memVars>>

notSteps == <<calls, cacheVars, schedVars, memVars>>

notCalls == <<renderVars, frames, step_parity, cacheVars, schedVars, memVars>>

notCache == <<renderVars, frames, step_parity, calls, schedVars, memVars>>

notSched == <<renderVars, frames, step_parity, calls, cacheVars, memVars>>

notMem == <<renderVars, frames, step_parity, calls, cacheVars, schedVars>>

(***************************************************************************)
(* Characters and character classes of Python's re module                  *)
(***************************************************************************)
LowerChars ==
    {"a","b","c","d","e","f","g","h","i","j","k","l","m",
     "n","o","p","q","r","s","t","u","v","w","x","y","z"}

UpperChars ==
    {"A","B","C","D","E","F","G","H","I","J","K","L","M",
     "N","O","P","Q","R","S","T","U","V","W","X","Y","Z"}

DigitChars == <<"0","1","2","3","4","5","6","7","8","9">>

AsciiWordChars ==
    LowerChars \cup UpperChars \cup {"_"} \cup {DigitChars[k] : k \in 1..10}

\* the patterns are str patterns, for which \w also matches the letters and
\* digits outside ASCII; one such letter is in the alphabet
WordChars == AsciiWordChars \cup {"é"}

SpaceChars == {" ", "\t", "\n", "\r", "\f"}

\* \w : the word characters that occur in the model's alphabet
IsWordChar(c) == c \in WordChars

\* \s : the whitespace characters that occur in the model's alphabet
IsSpaceChar(c) == c \in SpaceChars

Min(S) == CHOOSE x \in S : \A y \in S : x <= y

\* text.startswith(lit, i), with 1-based i
StartsWithAt(text, i, lit) ==
    /\ i >= 1
    /\ i + Len(lit) - 1 <= Len(text)
    /\ \A k \in 1..Len(lit) : text[i + k - 1] = lit[k]

\* smallest j >= i at which lit occurs in text, 0 when there is none
FindLit(text, i, lit) ==
    LET S == {j \in i..Len(text) : StartsWithAt(text, j, lit)}
    IN  IF S = {} THEN 0 ELSE Min(S)

\* first index >= i whose character is not whitespace (greedy \s+ / \s*)
SpaceRunEnd(text, i) ==
    LET S == {j \in i..Len(text) : ~IsSpaceChar(text[j])}
    IN  IF S = {} THEN Len(text) + 1 ELSE Min(S)

\* first index >= i whose character is neither a word character nor "."
PathRunEnd(text, i) ==
    LET S == {j \in i..Len(text) : ~(IsWordChar(text[j]) \/ text[j] = ".")}
    IN  IF S = {} THEN Len(text) + 1 ELSE Min(S)

\* first index >= i whose character is "}" (greedy [^}]*)
NonCloseRunEnd(text, i) ==
    LET S == {j \in i..Len(text) : text[j] = "}"}
    IN  IF S = {} THEN Len(text) + 1 ELSE Min(S)

\* p matches \w+(?:\.\w+)* as a whole
IsPath(p) ==
    /\ Len(p) >= 1
    /\ p[1] # "."
    /\ p[Len(p)] # "."
    /\ \A k \in 1..Len(p) : IsWordChar(p[k]) \/ p[k] = "."
    /\ \A k \in 1..(Len(p) - 1) : ~(p[k] = "." /\ p[k + 1] = ".")

(***************************************************************************)
(* Context values                                                          *)
(***************************************************************************)
VNone == [t |-> "none"]
VBool(b) == [t |-> "bool", v |-> b]
VInt(n) == [t |-> "int", v |-> n]
VFloat(m) == [t |-> "float", v |-> m]
VStr(s) == [t |-> "str", v |-> s]
VList(l) == [t |-> "list", v |-> l]
VDict(d) == [t |-> "dict", v |-> d]

\* key in value
DictHas(value, key) == \E k \in 1..Len(value.v) : value.v[k][1] = key

\* value[key]
DictGet(value, key) ==
    value.v[CHOOSE k \in 1..Len(value.v) : value.v[k][1] = key][2]

\* d[key] = val on the pair sequence d: an existing key keeps its position
DictSet(d, key, val) ==
    IF \E k \in 1..Len(d) : d[k][1] = key
    THEN [k \in 1..Len(d) |-> IF d[k][1] = key THEN <<key, val>> ELSE d[k]]
    ELSE Append(d, <<key, val>>)

\* dict.update(other) on pair sequences
RECURSIVE DictUpdate(_, _)
DictUpdate(d, other) ==
    IF other = <<>> THEN d
    ELSE DictUpdate(DictSet(d, Head(other)[1], Head(other)[2]), Tail(other))

\* key_path.split(".")
RECURSIVE SplitDots(_)
SplitDots(p) ==
    LET d == FindLit(p, 1, <<".">>)
    IN  IF d = 0 THEN <<p>>
        ELSE <<SubSeq(p, 1, d - 1)>> \o SplitDots(SubSeq(p, d + 1, Len(p)))

\* the for loop of resolve_value
RECURSIVE resolve_keys(_, _)
resolve_keys(keys, value) ==
    IF keys = <<>> THEN value
    ELSE IF value.t = "dict" /\ DictHas(value, Head(keys))
         THEN resolve_keys(Tail(keys), DictGet(value, Head(keys)))
         ELSE VNone

\* a variant of resolve_value that, where a segment cannot be followed, gives
\* the value reached so far
resolve_value_KeepLast(key_path, data_context) ==
    LET keys == SplitDots(key_path)
        at(k) == resolve_keys(SubSeq(keys, 1, k), data_context)
        ok(k) == at(k - 1).t = "dict" /\ DictHas(at(k - 1), keys[k])
        last == CHOOSE k \in 0..Len(keys) :
                    /\ \A j \in 1..k : ok(j)
                    /\ k = Len(keys) \/ ~ok(k + 1)
    IN  at(last)

resolve_value(key_path, data_context) ==
    resolve_keys(SplitDots(key_path), data_context)

(***************************************************************************)
(* Conversions to text                                                     *)
(***************************************************************************)
\* str(n) for a natural number
RECURSIVE NatToStr(_)
NatToStr(n) ==
    IF n < 10 THEN <<DigitChars[n + 1]>>
    ELSE NatToStr(n \div 10) \o <<DigitChars[(n % 10) + 1]>>

\* str(n) for an int
IntToStr(n) == IF n < 0 THEN <<"-">> \o NatToStr(0 - n) ELSE NatToStr(n)

\* str(m / 10) for a float with one decimal digit
FloatToStr(m) ==
    LET a == IF m < 0 THEN 0 - m ELSE m
    IN  (IF m < 0 THEN <<"-">> ELSE <<>>)
        \o NatToStr(a \div 10) \o <<".">> \o NatToStr(a % 10)

\* s.replace(c, r) for a one-character c
RECURSIVE ReplaceChar(_, _, _)
ReplaceChar(s, c, r) ==
    IF s = <<>> THEN <<>>
    ELSE (IF Head(s) = c THEN r ELSE <<Head(s)>>) \o ReplaceChar(Tail(s), c, r)

\* value.replace("&","&amp;").replace("<","&lt;").replace(">","&gt;").replace('"',"&quot;")
HtmlEscape(s) ==
    ReplaceChar(
      ReplaceChar(
        ReplaceChar(
          ReplaceChar(s, "&", <<"&","a","m","p",";">>),
          "<", <<"&","l","t",";">>),
        ">", <<"&","g","t",";">>),
      "\"", <<"&","q","u","o","t",";">>)

\* repr(s) of a str over the model's alphabet
StrRepr(s) ==
    LET hasS == \E k \in 1..Len(s) : s[k] = "'"
        hasD == \E k \in 1..Len(s) : s[k] = "\""
        e1 == ReplaceChar(s, "\\", <<"\\","\\">>)
        e2 == ReplaceChar(ReplaceChar(ReplaceChar(e1, "\n", <<"\\","n">>),
                                      "\t", <<"\\","t">>), "\r", <<"\\","r">>)
    IN  IF hasS /\ ~hasD THEN <<"\"">> \o e2 \o <<"\"">>
        ELSE <<"'">> \o ReplaceChar(e2, "'", <<"\\","'">>) \o <<"'">>

\* repr(value), which str() of a list or dict applies to the elements
RECURSIVE PyRepr(_)
RECURSIVE JoinRepr(_)
RECURSIVE JoinItems(_)
PyRepr(value) ==
    CASE value.t = "none" -> <<"N","o","n","e">>
      [] value.t = "bool" -> IF value.v THEN <<"T","r","u","e">>
                                        ELSE <<"F","a","l","s","e">>
      [] value.t = "int"  -> IntToStr(value.v)
      [] value.t = "float" -> FloatToStr(value.v)
      [] value.t = "str"  -> StrRepr(value.v)
      [] value.t = "list" -> <<"[">> \o JoinRepr(value.v) \o <<"]">>
      [] value.t = "dict" -> <<"{">> \o JoinItems(value.v) \o <<"}">>

JoinRepr(l) ==
    IF l = <<>> THEN <<>>
    ELSE IF Len(l) = 1 THEN PyRepr(l[1])
    ELSE PyRepr(l[1]) \o <<",", " ">> \o JoinRepr(Tail(l))

JoinItems(d) ==
    IF d = <<>> THEN <<>>
    ELSE LET one == StrRepr(d[1][1]) \o <<":", " ">> \o PyRepr(d[1][2])
         IN  IF Len(d) = 1 THEN one ELSE one \o <<",", " ">> \o JoinItems(Tail(d))

(***************************************************************************)
(* Regular expression matches                                              *)
(***************************************************************************)
OPEN2 == <<"{", "{">>
CLOSE2 == <<"}", "}">>
KwIf == <<"{","{","#","i","f">>
EndIf == <<"{","{","/","i","f","}","}">>
KwUnless == <<"{","{","#","u","n","l","e","s","s">>
EndUnless == <<"{","{","/","u","n","l","e","s","s","}","}">>
KwEach == <<"{","{","#","e","a","c","h">>
EndEach == <<"{","{","/","e","a","c","h","}","}">>

NoMatch == [ok |-> FALSE]

\* r"{{(\w+(?:\.\w+)*)}}" anchored at i
VarMatchAt(text, i) ==
    LET p == PathRunEnd(text, i + 2)
    IN  IF /\ StartsWithAt(text, i, OPEN2)
           /\ IsPath(SubSeq(text, i + 2, p - 1))
           /\ StartsWithAt(text, p, CLOSE2)
        THEN [ok |-> TRUE, path |-> SubSeq(text, i + 2, p - 1), end |-> p + 2]
        ELSE NoMatch

\* a variant of BlockMatchAt with the greedy body (.*): the block closes at
\* the last closing tag of its kind
BlockMatchAt_Greedy(text, i, kw, closer) ==
    LET a == i + Len(kw)
        s == SpaceRunEnd(text, a)
        p == PathRunEnd(text, s)
        C == {j \in (p + 2)..Len(text) : StartsWithAt(text, j, closer)}
        c == IF C = {} THEN 0 ELSE CHOOSE j \in C : \A k \in C : k <= j
    IN  IF /\ StartsWithAt(text, i, kw)
           /\ s > a
           /\ IsPath(SubSeq(text, s, p - 1))
           /\ StartsWithAt(text, p, CLOSE2)
           /\ c # 0
        THEN [ok |-> TRUE, path |-> SubSeq(text, s, p - 1),
              body |-> SubSeq(text, p + 2, c - 1), end |-> c + Len(closer)]
        ELSE NoMatch

\* r"{{#kw\s+(\w+(?:\.\w+)*)}}(.*?){{/kw}}" with re.DOTALL, anchored at i:
\* the lazy body ends at the nearest closing tag after the opening tag
BlockMatchAt(text, i, kw, closer) ==
    LET a == i + Len(kw)
        s == SpaceRunEnd(text, a)
        p == PathRunEnd(text, s)
        c == FindLit(text, p + 2, closer)
    IN  IF /\ StartsWithAt(text, i, kw)
           /\ s > a
           /\ IsPath(SubSeq(text, s, p - 1))
           /\ StartsWithAt(text, p, CLOSE2)
           /\ c # 0
        THEN [ok |-> TRUE, path |-> SubSeq(text, s, p - 1),
              body |-> SubSeq(text, p + 2, c - 1), end |-> c + Len(closer)]
        ELSE NoMatch

\* r"{{[^}]*}}" anchored at i
MarkerMatchAt(text, i) ==
    LET q == NonCloseRunEnd(text, i + 2)
    IN  IF StartsWithAt(text, i, OPEN2) /\ StartsWithAt(text, q, CLOSE2)
        THEN [ok |-> TRUE, end |-> q + 2]
        ELSE NoMatch

\* position of the leftmost match at or after i, 0 when there is none
NextVar(text, i) ==
    LET S == {j \in i..Len(text) : VarMatchAt(text, j).ok}
    IN  IF S = {} THEN 0 ELSE Min(S)

NextBlock(text, i, kw, closer) ==
    LET S == {j \in i..Len(text) : BlockMatchAt(text, j, kw, closer).ok}
    IN  IF S = {} THEN 0 ELSE Min(S)

NextMarker(text, i) ==
    LET S == {j \in i..Len(text) : MarkerMatchAt(text, j).ok}
    IN  IF S = {} THEN 0 ELSE Min(S)

(***************************************************************************)
(* The passes of _render_template_content                                  *)
(***************************************************************************)
\* a variant of replacer that tests for a number before it tests for a bool:
\* a bool is an int, and str() writes it True or False
replacer_NumberFirst(key_path, context) ==
    LET value == resolve_value(key_path, context)
    IN  CASE value.t = "none" -> <<>>
          [] value.t = "bool" -> IF value.v THEN <<"T","r","u","e">>
                                            ELSE <<"F","a","l","s","e">>
          [] value.t = "int"  -> IntToStr(value.v)
          [] value.t = "float" -> FloatToStr(value.v)
          [] value.t = "str"  -> HtmlEscape(value.v)
          [] OTHER            -> PyRepr(value)

\* replacer of replace_simple_variables
replacer(key_path, context) ==
    LET value == resolve_value(key_path, context)
    IN  CASE value.t = "none" -> <<>>
          [] value.t = "bool" -> IF value.v THEN <<"t","r","u","e">>
                                            ELSE <<"f","a","l","s","e">>
          [] value.t = "int"  -> IntToStr(value.v)
          [] value.t = "float" -> FloatToStr(value.v)
          [] value.t = "str"  -> HtmlEscape(value.v)
          [] OTHER            -> PyRepr(value)

\* re.sub(pattern, replacer, text) from position i on
RECURSIVE sub_variables(_, _, _)
sub_variables(text, i, context) ==
    LET j == NextVar(text, i)
        m == VarMatchAt(text, j)
    IN  IF j = 0 THEN SubSeq(text, i, Len(text))
        ELSE SubSeq(text, i, j - 1) \o replacer(m.path, context)
             \o sub_variables(text, m.end, context)

replace_simple_variables(text, context) == sub_variables(text, 1, context)

\* a variant of IfSelected that takes every value but None for true
IfSelected_NotNone(value) == value.t # "none"

\* the condition of if_replacer
IfSelected(value) ==
    /\ value.t # "none"
    /\ \/ value.t = "bool" /\ value.v
       \/ value.t \in {"str", "list", "dict"} /\ value.v # <<>>
       \/ value.t \in {"int", "float"} /\ value.v # 0

\* a variant of UnlessSelected that does not take the number 0 for false
UnlessSelected_NoZero(value) ==
    \/ value.t = "none"
    \/ value.t = "bool" /\ ~value.v
    \/ value.t \in {"str", "list", "dict"} /\ value.v = <<>>

\* the condition of unless_replacer; a bool is an int in Python, so the last
\* disjunct also covers False (False == 0) and rejects True
UnlessSelected(value) ==
    \/ value.t = "none"
    \/ value.t = "bool" /\ ~value.v
    \/ value.t \in {"str", "list", "dict"} /\ value.v = <<>>
    \/ value.t \in {"int", "float"} /\ value.v = 0

\* the names each_replacer binds for every item
K_this == <<"t","h","i","s">>
K_index == <<"i","n","d","e","x">>
K_first == <<"f","i","r","s","t">>
K_last == <<"l","a","s","t">>

\* a variant of item_context that does not merge the keys of the item
item_context_NoFlatten(context, array_value, index) ==
    VDict(DictUpdate(context.v,
            << <<K_this, array_value.v[index + 1]>>,
               <<K_index, VInt(index)>>,
               <<K_first, VBool(index = 0)>>,
               <<K_last, VBool(index = Len(array_value.v) - 1)>> >>))

\* a variant of item_context that compares index with len(array_value)
item_context_LastOffByOne(context, array_value, index) ==
    LET item == array_value.v[index + 1]
        bound == DictUpdate(context.v,
                   << <<K_this, item>>,
                      <<K_index, VInt(index)>>,
                      <<K_first, VBool(index = 0)>>,
                      <<K_last, VBool(index = Len(array_value.v))>> >>)
    IN  VDict(IF item.t = "dict" THEN DictUpdate(bound, item.v) ELSE bound)

\* a variant of item_context that merges the keys of the item first and the
\* loop bindings last
item_context_BindingsLast(context, array_value, index) ==
    LET item == array_value.v[index + 1]
        merged == IF item.t = "dict" THEN DictUpdate(context.v, item.v)
                  ELSE context.v
    IN  VDict(DictUpdate(merged,
                << <<K_this, item>>,
                   <<K_index, VInt(index)>>,
                   <<K_first, VBool(index = 0)>>,
                   <<K_last, VBool(index = Len(array_value.v) - 1)>> >>))

\* the context of one loop item
item_context(context, array_value, index) ==
    LET item == array_value.v[index + 1]
        bound == DictUpdate(context.v,
                   << <<K_this, item>>,
                      <<K_index, VInt(index)>>,
                      <<K_first, VBool(index = 0)>>,
                      <<K_last, VBool(index = Len(array_value.v) - 1)>> >>)
    IN  VDict(IF item.t = "dict" THEN DictUpdate(bound, item.v) ELSE bound)

RECURSIVE process_template(_, _)
RECURSIVE sub_if(_, _, _)
RECURSIVE sub_unless(_, _, _)
RECURSIVE sub_each(_, _, _)
RECURSIVE each_items(_, _, _, _)

if_replacer(condition, body, context) ==
    IF IfSelected(resolve_value(condition, context))
    THEN process_template(body, context)
    ELSE <<>>

\* a variant of unless_replacer whose condition is not inverted
unless_replacer_NotInverted(condition, body, context) ==
    IF IfSelected(resolve_value(condition, context))
    THEN process_template(body, context)
    ELSE <<>>

unless_replacer(condition, body, context) ==
    IF UnlessSelected(resolve_value(condition, context))
    THEN process_template(body, context)
    ELSE <<>>

\* a variant of each_items that hands the scope of an item on to the next
\* item
each_items_Leaky(body_template, context, array_value, index) ==
    IF index >= Len(array_value.v) THEN <<>>
    ELSE process_template(body_template, item_context(context, array_value, index))
         \o each_items(body_template, item_context(context, array_value, index),
                       array_value, index + 1)

\* the for loop of each_replacer, from the 0-based index on
each_items(body_template, context, array_value, index) ==
    IF index >= Len(array_value.v) THEN <<>>
    ELSE process_template(body_template, item_context(context, array_value, index))
         \o each_items(body_template, context, array_value, index + 1)

\* a variant of each_replacer that returns after the first item
each_replacer_FirstOnly(array_path, body_template, context) ==
    LET array_value == resolve_value(array_path, context)
    IN  IF array_value.t # "list" \/ array_value.v = <<>> THEN <<>>
        ELSE process_template(body_template, item_context(context, array_value, 0))

each_replacer(array_path, body_template, context) ==
    LET array_value == resolve_value(array_path, context)
    IN  IF array_value.t # "list" \/ array_value.v = <<>> THEN <<>>
        ELSE each_items(body_template, context, array_value, 0)

sub_if(text, i, context) ==
    LET j == NextBlock(text, i, KwIf, EndIf)
        m == BlockMatchAt(text, j, KwIf, EndIf)
    IN  IF j = 0 THEN SubSeq(text, i, Len(text))
        ELSE SubSeq(text, i, j - 1) \o if_replacer(m.path, m.body, context)
             \o sub_if(text, m.end, context)

sub_unless(text, i, context) ==
    LET j == NextBlock(text, i, KwUnless, EndUnless)
        m == BlockMatchAt(text, j, KwUnless, EndUnless)
    IN  IF j = 0 THEN SubSeq(text, i, Len(text))
        ELSE SubSeq(text, i, j - 1) \o unless_replacer(m.path, m.body, context)
             \o sub_unless(text, m.end, context)

sub_each(text, i, context) ==
    LET j == NextBlock(text, i, KwEach, EndEach)
        m == BlockMatchAt(text, j, KwEach, EndEach)
    IN  IF j = 0 THEN SubSeq(text, i, Len(text))
        ELSE SubSeq(text, i, j - 1) \o each_replacer(m.path, m.body, context)
             \o sub_each(text, m.end, context)

process_conditionals(text, context) ==
    sub_unless(sub_if(text, 1, context), 1, context)

process_loops(text, context) == sub_each(text, 1, context)

process_template(text, context) ==
    replace_simple_variables(
        process_loops(process_conditionals(text, context), context), context)

\* re.sub(r"{{[^}]*}}", "", text) from position i on
RECURSIVE sub_markers(_, _)
\* a variant of context_after_item without the copy (item_context = context):
\* the bindings of the item are written to the mapping each_replacer was given
context_after_item_NoCopy(context, array_value, index) ==
    item_context(context, array_value, index)

\* line 251, item_context = context.copy(): lines 252-258 write to the copy,
\* and the mapping each_replacer was given holds after the item what it held
\* before
context_after_item(context, array_value, index) == context

\* the mapping each_replacer was given, after the items from index on
RECURSIVE context_after_items(_, _, _)
context_after_items(context, array_value, index) ==
    IF index >= Len(array_value.v) THEN context
    ELSE context_after_items(context_after_item(context, array_value, index),
                             array_value, index + 1)

\* the mapping process_loops was given, after the each blocks of text from
\* position i on
RECURSIVE context_after_loops(_, _, _)
context_after_loops(text, i, context) ==
    LET j == NextBlock(text, i, KwEach, EndEach)
        m == BlockMatchAt(text, j, KwEach, EndEach)
        array_value == resolve_value(m.path, context)
    IN  IF j = 0 THEN context
        ELSE context_after_loops(text, m.end,
               IF array_value.t = "list"
               THEN context_after_items(context, array_value, 0)
               ELSE context)

\* the mapping process_template was given, after process_template
context_after(text, context) ==
    context_after_loops(process_conditionals(text, context), 1, context)

sub_markers(text, i) ==
    LET j == NextMarker(text, i)
    IN  IF j = 0 THEN SubSeq(text, i, Len(text))
        ELSE SubSeq(text, i, j - 1) \o sub_markers(text, MarkerMatchAt(text, j).end)

\* a variant of CleanupPass that removes the first marker only (count=1)
CleanupPass_Once(text) ==
    LET j == NextMarker(text, 1)
    IN  IF j = 0 THEN text
        ELSE SubSeq(text, 1, j - 1)
             \o SubSeq(text, MarkerMatchAt(text, j).end, Len(text))

\* a variant of CleanupPass with the greedy pattern r"{{.*}}": what lies
\* between the first opening and the last closing braces goes with them
CleanupPass_Greedy(text) ==
    LET i == FindLit(text, 1, OPEN2)
        S == {j \in (i + 2)..Len(text) : StartsWithAt(text, j, CLOSE2)}
    IN  IF i = 0 \/ S = {} THEN text
        ELSE SubSeq(text, 1, i - 1)
             \o SubSeq(text, (CHOOSE j \in S : \A k \in S : k <= j) + 2, Len(text))

\* a variant of CleanupPass that also removes the braces that form no marker
CleanupPass_AllBraces(text) ==
    LET stripped == sub_markers(text, 1)
    IN  ReplaceChar(ReplaceChar(stripped, "{", <<>>), "}", <<>>)

CleanupPass(text) == sub_markers(text, 1)

\* resolve_value is called at least once while text is processed
CallsResolver(text) ==
    \/ NextBlock(text, 1, KwIf, EndIf) # 0
    \/ NextBlock(text, 1, KwUnless, EndUnless) # 0
    \/ NextBlock(text, 1, KwEach, EndEach) # 0
    \/ NextVar(text, 1) # 0

\* what _render_template_content returns
Render(template, context, faulty) ==
    IF faulty /\ CallsResolver(template)
    THEN CleanupPass(template)
    ELSE CleanupPass(process_template(template, context))

(***************************************************************************)
(* Inputs of the model: templates and contexts                             *)
(***************************************************************************)
\* bounds
MaxFrags == 3
MaxStrLen == 4
MaxItems == 3
NumCalls == 2

\* keys of the contexts
K_x == <<"x">>

K_a == <<"a">>

K_b == <<"b">>

K_t == <<"t">>

K_l == <<"l">>

K_k == <<"k">>

K_j == <<"j">>

K_ok == <<"o","k">>

K_go == <<"g","o">>

K_name == <<"n","a","m","e">>

K_items == <<"i","t","e","m","s">>

K_title == <<"t","i","t","l","e">>

K_score == <<"s","c","o","r","e">>

K_date == <<"d","a","t","e">>

K_has_animes == <<"h","a","s","_","a","n","i","m","e","s">>

K_other_animes == <<"o","t","h","e","r","_","a","n","i","m","e","s">>

K_c == <<"c">>

K_p == <<"p">>

K_0 == <<"0">>

\* string values
S_A == <<"A">>

S_B == <<"B">>

S_a == <<"a">>

S_b == <<"b">>

S_u == <<"u">>

S_v == <<"v">>

S_w == <<"w">>

S_o == <<"o">>

S_zero == <<"0">>

S_8_0 == <<"8",".","0">>

S_7_5 == <<"7",".","5">>

S_date == <<"2","0","2","4","-","0","1","-","0","1">>

\* the end-to-end template
TplE2E ==
    <<"<","d","i","v",">","{","{","#","i","f"," ","h","a","s","_","a","n",
      "i","m","e","s","}","}","<","h","1",">","{","{","d","a","t","e","}",
      "}","<","/","h","1",">","{","{","#","e","a","c","h"," ","o","t","h",
      "e","r","_","a","n","i","m","e","s","}","}","<","p",">","{","{","t",
      "h","i","s",".","t","i","t","l","e","}","}"," ","-"," ","{","{","t",
      "h","i","s",".","s","c","o","r","e","}","}","<","/","p",">","{","{",
      "/","e","a","c","h","}","}","{","{","/","i","f","}","}","{","{","#",
      "u","n","l","e","s","s"," ","h","a","s","_","a","n","i","m","e","s",
      "}","}","<","p",">","N","o"," ","a","n","i","m","e"," ","t","o","d",
      "a","y","<","/","p",">","{","{","/","u","n","l","e","s","s","}","}",
      "<","/","d","i","v",">">>

\* templates with one directive
TplIfX ==
    <<"{","{","#","i","f"," ","x","}","}","A","{","{","/","i","f","}","}">>

TplUnlessX ==
    <<"{","{","#","u","n","l","e","s","s"," ","x","}","}","A","{","{","/",
      "u","n","l","e","s","s","}","}">>

TplIfAB ==
    <<"{","{","#","i","f"," ","a",".","b","}","}","A","{","{","/","i","f",
      "}","}">>

TplUnlessAB ==
    <<"{","{","#","u","n","l","e","s","s"," ","a",".","b","}","}","A","{",
      "{","/","u","n","l","e","s","s","}","}">>

TplVarT == <<"{","{","t","}","}">>

TplEachName ==
    <<"{","{","#","e","a","c","h"," ","i","t","e","m","s","}","}","{","{",
      "t","h","i","s",".","n","a","m","e","}","}",",","{","{","/","e","a",
      "c","h","}","}">>

TplEachK ==
    <<"{","{","#","e","a","c","h"," ","i","t","e","m","s","}","}","{","{",
      "k","}","}","|","{","{","t","h","i","s",".","k","}","}",";","{","{",
      "/","e","a","c","h","}","}">>

TplEachIdx ==
    <<"{","{","#","e","a","c","h"," ","i","t","e","m","s","}","}","{","{",
      "t","h","i","s","}","}","@","{","{","i","n","d","e","x","}","}",":",
      "{","{","f","i","r","s","t","}","}",":","{","{","l","a","s","t","}",
      "}",";","{","{","/","e","a","c","h","}","}">>

\* templates that nest one directive kind in another
TplEachIfOk ==
    <<"{","{","#","e","a","c","h"," ","i","t","e","m","s","}","}","{","{",
      "#","i","f"," ","o","k","}","}","Y","{","{","/","i","f","}","}","{",
      "{","#","u","n","l","e","s","s"," ","o","k","}","}","N","{","{","/",
      "u","n","l","e","s","s","}","}",";","{","{","/","e","a","c","h","}",
      "}">>

TplEachIfFirst ==
    <<"{","{","#","e","a","c","h"," ","i","t","e","m","s","}","}","{","{",
      "#","i","f"," ","f","i","r","s","t","}","}","F","{","{","/","i","f",
      "}","}","{","{","#","u","n","l","e","s","s"," ","l","a","s","t","}",
      "}",",","{","{","/","u","n","l","e","s","s","}","}","{","{","/","e",
      "a","c","h","}","}">>

TplIfEach ==
    <<"{","{","#","i","f"," ","g","o","}","}","{","{","#","e","a","c","h",
      " ","i","t","e","m","s","}","}","{","{","k","}","}",";","{","{","/",
      "e","a","c","h","}","}","{","{","/","i","f","}","}">>

TplVarX == <<"{","{","x","}","}">>

TplVarABC == <<"{","{","a",".","b",".","c","}","}">>

TplIfABC ==
    <<"{","{","#","i","f"," ","a",".","b",".","c","}","}","A","{","{","/",
      "i","f","}","}">>

TplUnlessABC ==
    <<"{","{","#","u","n","l","e","s","s"," ","a",".","b",".","c","}","}",
      "A","{","{","/","u","n","l","e","s","s","}","}">>

TplVarA0 == <<"{","{","a",".","0","}","}">>

TplForeach ==
    <<"{","{","#","f","o","r","e","a","c","h"," ","x","}","}","y","{","{",
      "/","f","o","r","e","a","c","h","}","}">>

TplStrayClose == <<"a","{","{","/","i","f","}","}","b">>

TplNoCloser ==
    <<"{","{","#","e","a","c","h"," ","l","}","}","a","{","{","#","i","f",
      " ","x","}","}","b">>

TplIfIf ==
    <<"{","{","#","i","f"," ","a","}","}","{","{","#","i","f"," ","b","}",
      "}","X","{","{","/","i","f","}","}","{","{","/","i","f","}","}">>

TplUnlessUnless ==
    <<"{","{","#","u","n","l","e","s","s"," ","a","}","}","{","{","#","u",
      "n","l","e","s","s"," ","b","}","}","X","{","{","/","u","n","l","e",
      "s","s","}","}","{","{","/","u","n","l","e","s","s","}","}">>

TplEachEach ==
    <<"{","{","#","e","a","c","h"," ","a","}","}","{","{","#","e","a","c",
      "h"," ","b","}","}","X","{","{","/","e","a","c","h","}","}","{","{",
      "/","e","a","c","h","}","}">>

TplIfT ==
    <<"{","{","#","i","f"," ","g","o","}","}","{","{","t","}","}","{","{",
      "/","i","f","}","}">>

TplUnlessT ==
    <<"{","{","#","u","n","l","e","s","s"," ","x","}","}","{","{","t","}",
      "}","{","{","/","u","n","l","e","s","s","}","}">>

TplEachT ==
    <<"{","{","#","e","a","c","h"," ","i","t","e","m","s","}","}","{","{",
      "t","}","}","{","{","/","e","a","c","h","}","}">>

S_x == <<"x">>

S_MarkP == <<"{","{","p","}","}">>

S_MarkT == <<"{","{","t","}","}">>

S_IfP ==
    <<"{","{","#","i","f"," ","p","}","}","B","{","{","/","i","f","}","}">>

S_lt == <<"a","<">>

(***************************************************************************)
(* The values the inputs are built from                                    *)
(***************************************************************************)
\* the values a condition or loop path is bound to (0 stands for "absent")
Values ==
    << VNone, VBool(TRUE), VBool(FALSE), VInt(0), VInt(1), VInt(-1),
       VInt(305), VFloat(0), VFloat(75), VFloat(-5),
       VStr(<<>>), VStr(S_a), VStr(S_zero),
       VList(<<>>), VList(<<VNone>>), VList(<<VInt(0)>>),
       VDict(<<>>), VDict(<< <<K_k, VNone>> >>) >>

\* the items of the lists a loop runs over
Items ==
    << VDict(<< <<K_name, VStr(S_a)>>, <<K_ok, VBool(TRUE)>>, <<K_k, VStr(S_v)>> >>),
       VDict(<< <<K_name, VStr(S_b)>>, <<K_ok, VBool(FALSE)>>, <<K_k, VStr(S_w)>>,
                <<K_j, VInt(1)>> >>),
       VInt(5),
       VDict(<< <<K_k, VStr(S_u)>>, <<K_this, VDict(<< <<K_k, VStr(S_w)>> >>)>>,
                <<K_index, VInt(7)>>, <<K_first, VBool(TRUE)>>,
                <<K_last, VBool(TRUE)>> >>) >>

\* the items of other_animes
Animes ==
    << VDict(<< <<K_title, VStr(S_A)>>, <<K_score, VStr(S_8_0)>> >>),
       VDict(<< <<K_title, VStr(S_B)>>, <<K_score, VStr(S_7_5)>> >>) >>

\* the contexts a list or value is placed in
Outers ==
    << <<>>,
       << <<K_has_animes, VBool(TRUE)>>, <<K_date, VStr(S_date)>>,
          <<K_go, VBool(TRUE)>>, <<K_ok, VBool(TRUE)>>, <<K_k, VStr(S_o)>> >>,
       << <<K_has_animes, VBool(FALSE)>>, <<K_go, VInt(0)>>,
          <<K_ok, VBool(FALSE)>> >> >>

\* the templates with one varying path, and that path
Templates ==
    << [tpl |-> TplIfX,         path |-> <<K_x>>],
       [tpl |-> TplUnlessX,     path |-> <<K_x>>],
       [tpl |-> TplIfAB,        path |-> <<K_a, K_b>>],
       [tpl |-> TplUnlessAB,    path |-> <<K_a, K_b>>],
       [tpl |-> TplEachName,    path |-> <<K_items>>],
       [tpl |-> TplEachK,       path |-> <<K_items>>],
       [tpl |-> TplEachIdx,     path |-> <<K_items>>],
       [tpl |-> TplEachIfOk,    path |-> <<K_items>>],
       [tpl |-> TplEachIfFirst, path |-> <<K_items>>],
       [tpl |-> TplIfEach,      path |-> <<K_items>>],
       [tpl |-> TplVarX,        path |-> <<K_x>>] >>

\* a template that refers to a key of some items and to the loop bindings,
\* inside the body and after the block
TplEachLeak ==
    <<"{","{","#","e","a","c","h"," ","i","t","e","m","s","}","}","{","{",
      "j","}","}",",","{","{","i","n","d","e","x","}","}",";","{","{","/",
      "e","a","c","h","}","}","|","{","{","j","}","}","{","{","i","n","d",
      "e","x","}","}","{","{","f","i","r","s","t","}","}","{","{","l","a",
      "s","t","}","}","{","{","t","h","i","s","}","}","{","{","n","a","m",
      "e","}","}">>

\* the contexts that template is rendered against, around the list
ScopeOuters ==
    << <<>>,
       << <<K_j, VStr(S_o)>>, <<K_index, VInt(9)>> >> >>

\* the characters of the string values
StrAlphabet == <<"&", "<", ">", "\"", "a", "{", "}">>

\* the fragments free-form templates are concatenated from
Fragments ==
    << OPEN2, CLOSE2, <<"{">>, <<"}">>, <<"a">>,
       <<"{","{","x","}","}">>,
       <<"{","{","#","i","f"," ","x","}","}">>, EndIf,
       <<"{","{","#","u","n","l","e","s","s"," ","x","}","}">>, EndUnless,
       <<"{","{","#","e","a","c","h"," ","l","}","}">>, EndEach,
       <<"{","{","#","f","o","r","e","a","c","h"," ","x","}","}">> >>

\* the contexts free-form templates are rendered against
FragContexts ==
    << VDict(<< <<K_x, VStr(<<"{","{","l","}","}">>)>>,
                <<K_l, VList(<<VInt(1), VDict(<< <<K_x, VDict(<<>>)>> >>)>>)>> >>),
       VDict(<< <<K_x, VInt(0)>> >>) >>

\* the concatenation of the fragments f[1], ..., f[n]
RECURSIVE Concat(_, _)
Concat(f, n) == IF n = 0 THEN <<>> ELSE Concat(f, n - 1) \o Fragments[f[n]]

\* the list of the items L[f[1]], ..., L[f[n]]
ListOf(L, f, n) == VList([k \in 1..n |-> L[f[k]]])

\* the string of the characters StrAlphabet[f[1]], ..., StrAlphabet[f[n]]
StrOf(f, n) == VStr([k \in 1..n |-> StrAlphabet[f[k]]])

\* the mapping in which path leads to value
RECURSIVE Wrap(_, _)
Wrap(path, value) ==
    IF Len(path) = 1 THEN << <<path[1], value>> >>
    ELSE << <<path[1], VDict(Wrap(Tail(path), value))>> >>

\* the values placed on the way of the path a.b.c, besides Values
PathValues ==
    << VStr(S_x),
       VList(<<VStr(S_x)>>),
       VList(<<VDict(Wrap(<<K_c>>, VStr(S_x)))>>),
       VList(<<VDict(Wrap(<<K_b, K_c>>, VStr(S_x)))>>),
       VDict(Wrap(<<K_0>>, VStr(S_x))),
       VDict(Wrap(<<K_c>>, VNone)) >>

\* the templates with the path a.b.c, or with a path through an index
PathTemplates == <<TplVarABC, TplIfABC, TplUnlessABC, TplVarA0>>

\* the templates with markers that are no directive
PlainTemplates == <<TplForeach, TplStrayClose, TplNoCloser>>

\* the templates with a block of one kind opened twice
TwiceTemplates == <<TplIfIf, TplUnlessUnless, TplEachEach>>

\* the templates with {{t}} at the top level and in a block body
InjectTemplates == <<TplVarT, TplIfT, TplUnlessT, TplEachT>>

\* the strings t is bound to
InjectStrings == <<S_MarkP, S_MarkT, S_IfP, S_lt>>

\* the values p is bound to (0 stands for "absent")
InjectValues == <<VStr(S_a), VStr(S_b), VBool(FALSE), VStr(S_MarkT)>>

\* the calls that run side by side
CallIds == 1..NumCalls

\* the frame of a call that has not begun
IdleCall ==
    [template_content |-> <<>>, data |-> VDict(<<>>), fault |-> FALSE,
     content |-> <<>>, pc |-> "idle"]

(***************************************************************************)
(* The state machine of one call of _render_template_content               *)
(***************************************************************************)
\* line 151, content = template_content, before the try block is entered
Start(template, context, faulty) ==
    /\ template_content = template
    /\ data = context
    /\ fault = faulty
    /\ content = template
    /\ pc = "try"

\* a free-form template
InitFrag ==
    \E n \in 0..MaxFrags : \E f \in [1..n -> 1..Len(Fragments)] :
      \E c \in 1..Len(FragContexts) : \E faulty \in BOOLEAN :
        Start(Concat(f, n), FragContexts[c], faulty)

\* {{t}} with a string value
InitStr ==
    \E n \in 0..MaxStrLen : \E f \in [1..n -> 1..Len(StrAlphabet)] :
      \E faulty \in BOOLEAN :
        Start(TplVarT, VDict(<< <<K_t, StrOf(f, n)>> >>), faulty)

\* a template whose path is absent or bound to a value
InitValue ==
    \E t \in 1..Len(Templates) : \E o \in 1..Len(Outers) :
      \E v \in 0..Len(Values) : \E faulty \in BOOLEAN :
        Start(Templates[t].tpl,
              VDict(IF v = 0 THEN Outers[o]
                    ELSE DictUpdate(Outers[o], Wrap(Templates[t].path, Values[v]))),
              faulty)

\* a template whose path is bound to a list
InitList ==
    \E t \in 1..Len(Templates) : \E o \in 1..Len(Outers) :
      \E n \in 1..MaxItems : \E faulty \in BOOLEAN :
        \E f \in [1..n -> 1..Len(Items)] :
          Start(Templates[t].tpl,
                VDict(DictUpdate(Outers[o],
                                 Wrap(Templates[t].path, ListOf(Items, f, n)))),
                faulty)

\* the end-to-end template: has_animes absent or bound to a value, date
\* absent or present, other_animes absent (n = -1) or a list of n items
InitE2E ==
    \E h \in 0..Len(Values) : \E d \in BOOLEAN : \E n \in (-1)..MaxItems :
      \E f \in [1..n -> 1..Len(Animes)] : \E faulty \in BOOLEAN :
        Start(TplE2E,
              VDict((IF h = 0 THEN <<>> ELSE << <<K_has_animes, Values[h]>> >>)
                    \o (IF d THEN << <<K_date, VStr(S_date)>> >> ELSE <<>>)
                    \o (IF n = -1 THEN <<>>
                        ELSE << <<K_other_animes, ListOf(Animes, f, n)>> >>)),
              faulty)

\* a template with a dotted path, the value placed at depth d of a.b.c
InitPath ==
    \E t \in 1..Len(PathTemplates) : \E d \in 1..3 :
      \E v \in 1..(Len(Values) + Len(PathValues)) : \E faulty \in BOOLEAN :
        Start(PathTemplates[t],
              VDict(Wrap(SubSeq(<<K_a, K_b, K_c>>, 1, d),
                         IF v <= Len(Values) THEN Values[v]
                         ELSE PathValues[v - Len(Values)])),
              faulty)

\* a template with markers that are no directive
InitPlain ==
    \E t \in 1..Len(PlainTemplates) : \E c \in 0..Len(FragContexts) :
      \E faulty \in BOOLEAN :
        Start(PlainTemplates[t],
              IF c = 0 THEN VDict(<<>>) ELSE FragContexts[c], faulty)

\* a block of one kind opened twice, a and b absent or bound to a value
InitTwice ==
    \E t \in 1..Len(TwiceTemplates) : \E a \in 0..Len(Values) :
      \E b \in 0..Len(Values) : \E faulty \in BOOLEAN :
        Start(TwiceTemplates[t],
              VDict((IF a = 0 THEN <<>> ELSE << <<K_a, Values[a]>> >>)
                    \o (IF b = 0 THEN <<>> ELSE << <<K_b, Values[b]>> >>)),
              faulty)

\* {{t}} in a block body, t bound to a string that holds markers
InitInject ==
    \E t \in 1..Len(InjectTemplates) : \E s \in 1..Len(InjectStrings) :
      \E v \in 0..Len(InjectValues) : \E n \in 1..MaxItems :
        \E faulty \in BOOLEAN :
          Start(InjectTemplates[t],
                VDict(<< <<K_go, VBool(TRUE)>>,
                         <<K_items, VList([k \in 1..n |-> VInt(k)])>>,
                         <<K_t, VStr(InjectStrings[s])>> >>
                      \o (IF v = 0 THEN <<>>
                          ELSE << <<K_p, InjectValues[v]>> >>)),
                faulty)

\* templates with markers at the edge of the directive grammar
TplSpaceXSpace ==
    <<"{","{"," ","x"," ","}","}","|">>

TplXSpace ==
    <<"{","{","x"," ","}","}","|">>

TplIndexA0 ==
    <<"{","{","a","[","0","]","}","}","|">>

TplIfXSpace ==
    <<"{","{","#","i","f"," ","x"," ","}","}","A","{","{","/","i","f","}","}">>

TplIfSpacesX ==
    <<"{","{","#","i","f"," "," ","x","}","}","A","{","{","/","i","f","}","}">>

TplIfTabX ==
    <<"{","{","#","i","f","\t","x","}","}","A","{","{","/","i","f","}","}">>

TplUnlessSpacesX ==
    <<"{","{","#","u","n","l","e","s","s"," "," ","x","}","}","A","{","{","/","u","n","l","e","s","s","}","}">>

TplEachSpacesL ==
    <<"{","{","#","e","a","c","h"," "," ","l","}","}","A","{","{","/","e","a","c","h","}","}">>

TplVarAccent ==
    <<"{","{","é","}","}","|">>

TplIfAccent ==
    <<"{","{","#","i","f"," ","é","}","}","A","{","{","/","i","f","}","}">>

K_accent == <<"é">>

GrammarTemplates ==
    <<TplSpaceXSpace, TplXSpace, TplIndexA0, TplIfXSpace, TplIfSpacesX,
      TplIfTabX, TplUnlessSpacesX, TplEachSpacesL, TplVarAccent, TplIfAccent,
      TplVarX, TplIfX, TplUnlessX, TplVarABC>>

\* the values x and the non-ASCII key are bound to
GrammarValues == <<VBool(TRUE), VBool(FALSE), VStr(S_v), VNone>>

\* a template at the edge of the grammar; x, a, l and the non-ASCII key bound
InitGrammar ==
    \E t \in 1..Len(GrammarTemplates) : \E x \in 1..Len(GrammarValues) :
      \E e \in 1..Len(GrammarValues) : \E n \in 0..MaxItems :
        \E faulty \in BOOLEAN :
          Start(GrammarTemplates[t],
                VDict(<< <<K_x, GrammarValues[x]>>,
                         <<K_accent, GrammarValues[e]>>,
                         <<K_a, VDict(<< <<K_b, VDict(<< <<K_c, VStr(S_u)>> >>)>> >>)>>,
                         <<K_l, VList([k \in 1..n |-> VInt(k)])>> >>),
                faulty)

\* an each block over a list, with references to item keys and loop bindings
\* after the block
InitScope ==
    \E o \in 1..Len(ScopeOuters) : \E n \in 1..MaxItems :
      \E f \in [1..n -> 1..Len(Items)] : \E faulty \in BOOLEAN :
        Start(TplEachLeak,
              VDict(DictUpdate(ScopeOuters[o],
                               << <<K_items, ListOf(Items, f, n)>> >>)),
              faulty)

\* no call runs side by side
CallsIdle == calls = [i \in CallIds |-> IdleCall]

\* the cache after __init__ on an empty storage directory: no poster is
\* indexed, the index file is written, the lock is free
CacheIdle ==
    /\ lock = "free"
    /\ cache_index = {}
    /\ cache_file = {}
    /\ files = {}
    /\ expired = {}
    /\ stack = <<>>
    /\ returned = "nothing"

\* the global scheduler after DailyAnimeScheduler.__init__, lines 61-64, at
\* minute 0 of the day, before an event handler of the plugin has run
NoTask == [pc |-> "none", i |-> 0, current_time |-> 0, wake |-> 0]

SchedIdle ==
    /\ running = FALSE
    /\ tasks = <<>>
    /\ scheduler_task = NoTask
    /\ now = 0
    /\ handled = <<>>
    /\ pushed = "nothing"
    /\ logged = {}

\* a MemoryCache after __init__, lines 46-50, with the default max_size, at
\* second 0
MemIdle ==
    /\ mem_max_size = 1000
    /\ mem_cache = <<>>
    /\ mem_last_cleanup = 0
    /\ mem_time = 0
    /\ mem_written = [op |-> "init"]
    /\ mem_returned = [op |-> "init"]

\* no call of _render_template_content is modelled
RenderIdle ==
    /\ template_content = <<>>
    /\ data = VDict(<<>>)
    /\ fault = FALSE
    /\ content = <<>>
    /\ pc = "idle"
    /\ frames = <<>>
    /\ step_parity = 0

Init ==
    /\ \/ InitFrag \/ InitStr \/ InitValue \/ InitList \/ InitE2E
       \/ InitPath \/ InitPlain \/ InitTwice \/ InitInject
    /\ frames = <<>>
    /\ step_parity = 0
    /\ CallsIdle
    /\ CacheIdle
    /\ SchedIdle
    /\ MemIdle

\* the calls about the scope of the items of an each block
InitEach ==
    /\ InitList \/ InitScope
    /\ frames = <<>>
    /\ step_parity = 0
    /\ CallsIdle
    /\ CacheIdle
    /\ SchedIdle
    /\ MemIdle

\* the calls about the grammar of the markers
InitMarkers ==
    /\ InitGrammar
    /\ frames = <<>>
    /\ step_parity = 0
    /\ CallsIdle
    /\ CacheIdle
    /\ SchedIdle
    /\ MemIdle

\* the injected fault: resolve_value raises at its first call
Raises == fault /\ CallsResolver(content)

\* line 281, content = process_template(content, data), completes; data is
\* the caller's mapping, which the each blocks were handed
ProcessTemplate ==
    /\ pc = "try"
    /\ ~Raises
    /\ content' = process_template(content, data)
    /\ data' = context_after(content, data)
    /\ pc' = "cleanup"
    /\ UNCHANGED <<template_content, fault>>
    /\ UNCHANGED notRender

\* line 281 raises: content is not assigned, control goes to the handler
ProcessTemplateRaises ==
    /\ pc = "try"
    /\ Raises
    /\ pc' = "except"
    /\ UNCHANGED <<template_content, data, fault, content>>
    /\ UNCHANGED notRender

\* line 284, the cleanup of the try block, then the return
Cleanup ==
    /\ pc = "cleanup"
    /\ content' = CleanupPass(content)
    /\ pc' = "done"
    /\ UNCHANGED <<template_content, data, fault>>
    /\ UNCHANGED notRender

\* a variant of ExceptFallback that returns the template as it is
ExceptFallback_NoCleanup ==
    /\ pc = "except"
    /\ content' = template_content
    /\ pc' = "done"
    /\ UNCHANGED <<template_content, data, fault>>
    /\ UNCHANGED notRender

\* lines 288-291, the exception handler, then the return
ExceptFallback ==
    /\ pc = "except"
    /\ content' = CleanupPass(template_content)
    /\ pc' = "done"
    /\ UNCHANGED <<template_content, data, fault>>
    /\ UNCHANGED notRender

Next == ProcessTemplate \/ ProcessTemplateRaises \/ Cleanup \/ ExceptFallback

Spec == Init /\ [][Next]_vars

SpecEach == InitEach /\ [][Next]_vars

SpecMarkers == InitMarkers /\ [][Next]_vars

\* the call has returned without a fault having been raised
Returned == pc = "done" /\ ~(fault /\ CallsResolver(template_content))

\* the call has returned through the exception handler
FellBack == pc = "done" /\ fault /\ CallsResolver(template_content)

(***************************************************************************)
(* The same call followed match by match: every replacer call that re.sub   *)
(* makes is a step, and every call of process_template is a frame           *)
(*   text     the text the current pass scans                               *)
(*   context  the context of the activation                                 *)
(*   phase    the pass: "if", "unless", "each", "item" (the for loop of     *)
(*            each_replacer), "var", "ret" (the return), "cleanup"          *)
(*   pos      where re.sub goes on scanning                                 *)
(*   out      what re.sub has put out so far                                *)
(*   body, array, index   the each block whose items are being expanded     *)
(* No fault is injected here.                                               *)
(***************************************************************************)
Frame(text, context) ==
    [text |-> text, context |-> context, phase |-> "if", pos |-> 1,
     out |-> <<>>, body |-> <<>>, array |-> VNone, index |-> 0]

\* the innermost activation
Top == frames[Len(frames)]

SetTop(f) == [frames EXCEPT ![Len(frames)] = f]

\* re.sub has found no further match: what it returns is the text of the
\* next pass
NextPass(f, phase) ==
    [f EXCEPT !.text = f.out \o SubSeq(f.text, f.pos, Len(f.text)),
              !.phase = phase, !.pos = 1, !.out = <<>>]

\* re.sub copies the text before the match at j and goes on after the match
Skip(f, j, end) ==
    [f EXCEPT !.out = f.out \o SubSeq(f.text, f.pos, j - 1), !.pos = end]

\* lines 149-151, then the call process_template(content, data) of line 281
InitSteps ==
    /\ \E t \in 1..Len(InjectTemplates) : \E s \in 1..Len(InjectStrings) :
         \E v \in 0..Len(InjectValues) : \E n \in 1..MaxItems :
           /\ template_content = InjectTemplates[t]
           /\ data = VDict(<< <<K_go, VBool(TRUE)>>,
                              <<K_items, VList([k \in 1..n |-> VInt(k)])>>,
                              <<K_t, VStr(InjectStrings[s])>> >>
                           \o (IF v = 0 THEN <<>>
                               ELSE << <<K_p, InjectValues[v]>> >>))
    /\ fault = FALSE
    /\ content = template_content
    /\ pc = "try"
    /\ frames = <<Frame(template_content, data)>>
    /\ step_parity = 0
    /\ CallsIdle
    /\ CacheIdle
    /\ SchedIdle
    /\ MemIdle

\* lines 195-211: the next match of if_pattern and the call of if_replacer
StepIf ==
    /\ pc = "try"
    /\ Top.phase = "if"
    /\ \E j \in {NextBlock(Top.text, Top.pos, KwIf, EndIf)} :
         \E m \in {BlockMatchAt(Top.text, j, KwIf, EndIf)} :
           frames' =
             IF j = 0 THEN SetTop(NextPass(Top, "unless"))
             ELSE IF IfSelected(resolve_value(m.path, Top.context))
                  THEN Append(SetTop(Skip(Top, j, m.end)),
                              Frame(m.body, Top.context))
                  ELSE SetTop(Skip(Top, j, m.end))
    /\ step_parity' = 1 - step_parity
    /\ UNCHANGED <<renderVars, notSteps>>

\* lines 214-231: the next match of unless_pattern and the call of
\* unless_replacer
StepUnless ==
    /\ pc = "try"
    /\ Top.phase = "unless"
    /\ \E j \in {NextBlock(Top.text, Top.pos, KwUnless, EndUnless)} :
         \E m \in {BlockMatchAt(Top.text, j, KwUnless, EndUnless)} :
           frames' =
             IF j = 0 THEN SetTop(NextPass(Top, "each"))
             ELSE IF UnlessSelected(resolve_value(m.path, Top.context))
                  THEN Append(SetTop(Skip(Top, j, m.end)),
                              Frame(m.body, Top.context))
                  ELSE SetTop(Skip(Top, j, m.end))
    /\ step_parity' = 1 - step_parity
    /\ UNCHANGED <<renderVars, notSteps>>

\* lines 238-247: the next match of each_pattern and the call of
\* each_replacer up to its for loop
StepEach ==
    /\ pc = "try"
    /\ Top.phase = "each"
    /\ \E j \in {NextBlock(Top.text, Top.pos, KwEach, EndEach)} :
         \E m \in {BlockMatchAt(Top.text, j, KwEach, EndEach)} :
           frames' =
             IF j = 0 THEN SetTop(NextPass(Top, "var"))
             ELSE LET array_value == resolve_value(m.path, Top.context)
                  IN  IF array_value.t # "list" \/ array_value.v = <<>>
                      THEN SetTop(Skip(Top, j, m.end))
                      ELSE SetTop([Skip(Top, j, m.end) EXCEPT
                                     !.phase = "item", !.body = m.body,
                                     !.array = array_value, !.index = 0])
    /\ step_parity' = 1 - step_parity
    /\ UNCHANGED <<renderVars, notSteps>>

\* lines 249-264: one round of the for loop of each_replacer, or its end
StepItem ==
    /\ pc = "try"
    /\ Top.phase = "item"
    /\ frames' =
         IF Top.index >= Len(Top.array.v)
         THEN SetTop([Top EXCEPT !.phase = "each"])
         ELSE Append(SetTop([Top EXCEPT !.index = Top.index + 1]),
                     Frame(Top.body,
                           item_context(Top.context, Top.array, Top.index)))
    /\ step_parity' = 1 - step_parity
    /\ UNCHANGED <<renderVars, notSteps>>

\* a variant of StepVariable that scans what it has put out: after a
\* replacement it goes on from the start of the new text, to a fixed point
StepVariable_Rescan ==
    /\ pc = "try"
    /\ Top.phase = "var"
    /\ \E j \in {NextVar(Top.text, Top.pos)} :
         \E m \in {VarMatchAt(Top.text, j)} :
           frames' =
             IF j = 0 THEN SetTop(NextPass(Top, "ret"))
             ELSE SetTop([Top EXCEPT
                            !.text = SubSeq(Top.text, 1, j - 1)
                                     \o replacer(m.path, Top.context)
                                     \o SubSeq(Top.text, m.end, Len(Top.text)),
                            !.pos = 1])
    /\ step_parity' = 1 - step_parity
    /\ UNCHANGED <<renderVars, notSteps>>

\* lines 169-187: the next match of the variable pattern and the call of
\* replacer
StepVariable ==
    /\ pc = "try"
    /\ Top.phase = "var"
    /\ \E j \in {NextVar(Top.text, Top.pos)} :
         \E m \in {VarMatchAt(Top.text, j)} :
           frames' =
             IF j = 0 THEN SetTop(NextPass(Top, "ret"))
             ELSE SetTop([Skip(Top, j, m.end) EXCEPT
                            !.out = Skip(Top, j, m.end).out
                                    \o replacer(m.path, Top.context)])
    /\ step_parity' = 1 - step_parity
    /\ UNCHANGED <<renderVars, notSteps>>

\* line 277: process_template returns, to the replacer that called it (lines
\* 203, 224, 261), which puts the result out, or to line 281
StepReturn ==
    /\ pc = "try"
    /\ Top.phase = "ret"
    /\ IF Len(frames) > 1
       THEN /\ frames' = [k \in 1..(Len(frames) - 1) |->
                            IF k = Len(frames) - 1
                            THEN [frames[k] EXCEPT !.out = frames[k].out \o Top.text]
                            ELSE frames[k]]
            /\ UNCHANGED <<content, pc>>
       ELSE /\ content' = Top.text
            /\ pc' = "cleanup"
            /\ frames' = <<[Frame(Top.text, data) EXCEPT !.phase = "cleanup"]>>
    /\ step_parity' = 1 - step_parity
    /\ UNCHANGED <<template_content, data, fault, notSteps>>

\* line 284: the next match of the cleanup pattern, or the return of line 286
StepCleanup ==
    /\ pc = "cleanup"
    /\ Top.phase = "cleanup"
    /\ \E j \in {NextMarker(Top.text, Top.pos)} :
         IF j = 0
         THEN /\ content' = Top.out \o SubSeq(Top.text, Top.pos, Len(Top.text))
              /\ pc' = "done"
              /\ frames' = <<>>
         ELSE /\ frames' = SetTop(Skip(Top, j, MarkerMatchAt(Top.text, j).end))
              /\ UNCHANGED <<content, pc>>
    /\ step_parity' = 1 - step_parity
    /\ UNCHANGED <<template_content, data, fault, notSteps>>

NextSteps ==
    \/ StepIf \/ StepUnless \/ StepEach \/ StepItem
    \/ StepVariable \/ StepReturn \/ StepCleanup

SpecSteps == InitSteps /\ [][NextSteps]_vars

\* a step of the call seen through step_parity: every step of NextSteps is
\* one, and in a state where the call has not returned and a pass or a return
\* is due (see NotBlocked) a step of NextSteps is possible
Advance == pc # "done" /\ step_parity' = 1 - step_parity

\* the call is one synchronous function: the interpreter goes on to the next
\* statement as long as there is one
FairSteps == SpecSteps /\ WF_step_parity(Advance)

(***************************************************************************)
(* Calls of _render_template_content side by side: template_content, data  *)
(* and content are the arguments and a local of each call, and the closures *)
(* of lines 154-277 are made anew by each call                              *)
(***************************************************************************)
\* the templates and contexts of the calls
CallTemplates == <<TplIfX, TplEachK, TplVarX>>

CallContexts ==
    << VDict(<< <<K_x, VInt(1)>>,
                <<K_items, VList(<<Items[1], Items[2]>>)>> >>),
       VDict(<< <<K_x, VStr(<<"<">>)>>, <<K_items, VList(<<>>)>> >>) >>

\* a variant of CallStart in which content outlives the call (an attribute
\* that is set once): a later call goes on from what the call before left
CallStart_KeepContent(i) ==
    /\ calls[i].pc \in {"idle", "done"}
    /\ \E t \in 1..Len(CallTemplates) : \E c \in 1..Len(CallContexts) :
         \E faulty \in BOOLEAN :
           calls' = [calls EXCEPT ![i] =
                       [template_content |-> CallTemplates[t],
                        data |-> CallContexts[c],
                        fault |-> faulty,
                        content |-> IF calls[i].pc = "done"
                                    THEN calls[i].content
                                    ELSE CallTemplates[t],
                        pc |-> "try"]]
    /\ UNCHANGED notCalls

\* lines 149-151: call i begins, the first one or one after a call that has
\* returned, with its arguments and content = template_content
CallStart(i) ==
    /\ calls[i].pc \in {"idle", "done"}
    /\ \E t \in 1..Len(CallTemplates) : \E c \in 1..Len(CallContexts) :
         \E faulty \in BOOLEAN :
           calls' = [calls EXCEPT ![i] =
                       [template_content |-> CallTemplates[t],
                        data |-> CallContexts[c],
                        fault |-> faulty,
                        content |-> CallTemplates[t],
                        pc |-> "try"]]
    /\ UNCHANGED notCalls

\* line 281 of call i completes
CallProcessTemplate(i) ==
    /\ calls[i].pc = "try"
    /\ ~(calls[i].fault /\ CallsResolver(calls[i].content))
    /\ calls' = [calls EXCEPT ![i] =
                   [calls[i] EXCEPT
                      !.content = process_template(calls[i].content, calls[i].data),
                      !.data = context_after(calls[i].content, calls[i].data),
                      !.pc = "cleanup"]]
    /\ UNCHANGED notCalls

\* line 281 of call i raises
CallProcessTemplateRaises(i) ==
    /\ calls[i].pc = "try"
    /\ calls[i].fault /\ CallsResolver(calls[i].content)
    /\ calls' = [calls EXCEPT ![i] = [calls[i] EXCEPT !.pc = "except"]]
    /\ UNCHANGED notCalls

\* line 284 of call i, then its return
CallCleanup(i) ==
    /\ calls[i].pc = "cleanup"
    /\ calls' = [calls EXCEPT ![i] =
                   [calls[i] EXCEPT !.content = CleanupPass(calls[i].content),
                                    !.pc = "done"]]
    /\ UNCHANGED notCalls

\* lines 288-291 of call i, then its return
CallExceptFallback(i) ==
    /\ calls[i].pc = "except"
    /\ calls' = [calls EXCEPT ![i] =
                   [calls[i] EXCEPT
                      !.content = CleanupPass(calls[i].template_content),
                      !.pc = "done"]]
    /\ UNCHANGED notCalls

InitCalls == RenderIdle /\ CallsIdle /\ CacheIdle /\ SchedIdle /\ MemIdle

NextCalls ==
    \E i \in CallIds :
      \/ CallStart(i)
      \/ CallProcessTemplate(i)
      \/ CallProcessTemplateRaises(i)
      \/ CallCleanup(i)
      \/ CallExceptFallback(i)

SpecCalls == InitCalls /\ [][NextCalls]_vars

(***************************************************************************)
(* PosterCache (src/poster/cache.py).  The coroutines of the cache contain  *)
(* no suspension point, so one thread runs one call at a time; stack holds  *)
(* the calls in progress, the innermost last, as records                    *)
(*   [fn |-> name of the method, pc |-> its position, poster_type |-> t].   *)
(* lock is "free" or the name of the method that holds self._lock, a        *)
(* threading.Lock: acquiring it while it is held blocks the thread.         *)
(* cache_index is the set of the poster types indexed in memory, cache_file *)
(* the set written to cache.json; the key last_updated, which               *)
(* _save_cache_index rewrites at line 61, is left out.                      *)
(***************************************************************************)
PosterTypes == {"daily", "weekly"}

Call(fn, pos, t) == [fn |-> fn, pc |-> pos, poster_type |-> t]

\* the innermost call
Running == stack[Len(stack)]

\* the innermost call moves on to position pos
Goto(pos) == [stack EXCEPT ![Len(stack)] = [Running EXCEPT !.pc = pos]]

\* the innermost call moves on to position pos and calls fn
GotoAndCall(pos, fn) == Append(Goto(pos), Call(fn, "begin", Running.poster_type))

\* the innermost call returns
Pop == SubSeq(stack, 1, Len(stack) - 1)

At(fn, pos) == stack # <<>> /\ Running.fn = fn /\ Running.pc = pos

\* a coroutine of the cache is called while no call is in progress
CallCache ==
    /\ stack = <<>>
    /\ \E fn \in {"save_poster", "get_poster", "delete_poster"} :
         \E t \in PosterTypes : stack' = <<Call(fn, "begin", t)>>
    /\ returned' = "nothing"
    /\ UNCHANGED <<lock, cache_index, cache_file, files, expired, notCache>>

\* save_poster, lines 100-119: the poster file is written
SavePosterWrite ==
    /\ At("save_poster", "begin")
    /\ files' = files \cup {Running.poster_type}
    /\ stack' = Goto("index")
    /\ UNCHANGED <<lock, cache_index, cache_file, expired, returned, notCache>>

\* save_poster, lines 122-125: the lock is taken, the poster is indexed with
\* created_at = now, the lock is released, _save_cache_index is called
SavePosterIndex ==
    /\ At("save_poster", "index")
    /\ lock = "free"
    /\ cache_index' = cache_index \cup {Running.poster_type}
    /\ expired' = expired \ {Running.poster_type}
    /\ stack' = GotoAndCall("return", "_save_cache_index")
    /\ UNCHANGED <<lock, cache_file, files, returned, notCache>>

\* save_poster, line 128
SavePosterReturn ==
    /\ At("save_poster", "return")
    /\ stack' = Pop
    /\ returned' = "poster_info"
    /\ UNCHANGED <<lock, cache_index, cache_file, files, expired, notCache>>

\* get_poster, line 144: with self._lock
GetPosterAcquire ==
    /\ At("get_poster", "begin")
    /\ lock = "free"
    /\ lock' = "get_poster"
    /\ stack' = Goto("check")
    /\ UNCHANGED <<cache_index, cache_file, files, expired, returned, notCache>>

\* get_poster, lines 145-161, inside the with block: the poster is not
\* indexed (145); its file is missing, the entry is deleted and
\* _save_cache_index is called (150-154); it is older than max_days and
\* delete_poster is called (157-161); or it is there (164-172)
GetPosterCheck ==
    /\ At("get_poster", "check")
    /\ LET t == Running.poster_type
       IN  IF t \notin cache_index
           THEN /\ stack' = Goto("return_none")
                /\ UNCHANGED <<cache_index, expired>>
           ELSE IF t \notin files
           THEN /\ cache_index' = cache_index \ {t}
                /\ expired' = expired \ {t}
                /\ stack' = GotoAndCall("return_none", "_save_cache_index")
           ELSE IF t \in expired
           THEN /\ stack' = GotoAndCall("return_none", "delete_poster")
                /\ UNCHANGED <<cache_index, expired>>
           ELSE /\ stack' = Goto("return_info")
                /\ UNCHANGED <<cache_index, expired>>
    /\ UNCHANGED <<lock, cache_file, files, returned, notCache>>

\* get_poster, lines 146, 155, 162 and 172: the return, which leaves the with
\* block
GetPosterReturn ==
    /\ \/ At("get_poster", "return_none")
       \/ At("get_poster", "return_info")
    /\ lock' = "free"
    /\ stack' = Pop
    /\ returned' = IF Running.pc = "return_info" THEN "poster_info" ELSE "None"
    /\ UNCHANGED <<cache_index, cache_file, files, expired, notCache>>

\* delete_poster, lines 189-204: the lock is taken; a poster that is not
\* indexed ends the call (190-191); else its file and its entry are deleted,
\* the lock is released and _save_cache_index is called
DeletePosterBody ==
    /\ At("delete_poster", "begin")
    /\ lock = "free"
    /\ LET t == Running.poster_type
       IN  IF t \notin cache_index
           THEN /\ stack' = Goto("return")
                /\ UNCHANGED <<cache_index, files, expired>>
           ELSE /\ files' = files \ {t}
                /\ cache_index' = cache_index \ {t}
                /\ expired' = expired \ {t}
                /\ stack' = GotoAndCall("return", "_save_cache_index")
    /\ UNCHANGED <<lock, cache_file, returned, notCache>>

\* delete_poster, lines 191 and 205
DeletePosterReturn ==
    /\ At("delete_poster", "return")
    /\ stack' = Pop
    /\ returned' = IF Len(stack) = 1 THEN "True" ELSE returned
    /\ UNCHANGED <<lock, cache_index, cache_file, files, expired, notCache>>

\* _save_cache_index, lines 63-65: the lock is taken, the index is written to
\* cache.json, the lock is released
SaveCacheIndexDump ==
    /\ At("_save_cache_index", "begin")
    /\ lock = "free"
    /\ cache_file' = cache_index
    /\ stack' = Goto("return")
    /\ UNCHANGED <<lock, cache_index, files, expired, returned, notCache>>

\* _save_cache_index, line 67
SaveCacheIndexReturn ==
    /\ At("_save_cache_index", "return")
    /\ stack' = Pop
    /\ UNCHANGED <<lock, cache_index, cache_file, files, expired, returned, notCache>>

\* a poster file is removed from outside the cache
RemoveFile ==
    /\ \E t \in files : files' = files \ {t}
    /\ UNCHANGED <<lock, cache_index, cache_file, expired, stack, returned, notCache>>

\* time passes: an indexed poster is now older than max_days
Expire ==
    /\ \E t \in cache_index \ expired : expired' = expired \cup {t}
    /\ UNCHANGED <<lock, cache_index, cache_file, files, stack, returned, notCache>>

InitCache == RenderIdle /\ CallsIdle /\ CacheIdle /\ SchedIdle /\ MemIdle

NextCache ==
    \/ CallCache
    \/ SavePosterWrite \/ SavePosterIndex \/ SavePosterReturn
    \/ GetPosterAcquire \/ GetPosterCheck \/ GetPosterReturn
    \/ DeletePosterBody \/ DeletePosterReturn
    \/ SaveCacheIndexDump \/ SaveCacheIndexReturn
    \/ RemoveFile \/ Expire

SpecCache == InitCache /\ [][NextCache]_vars

(***************************************************************************)
(* DailyAnimeScheduler (src/utils/scheduler.py) and the event handlers of   *)
(* the plugin that register its tasks (src/plugin.py).  The coroutines run  *)
(* on one event loop, so a step runs from one suspension point to the next. *)
(* Times are minutes since midnight of the day the plugin starts; None is   *)
(* NoTime.  A task is a record with the fields of ScheduledTask; its func   *)
(* is a record                                                              *)
(*   [wrapper |-> "daily_push_wrapper", push_func |-> f, chat_ids |-> c]    *)
(* for the closure create_daily_push_task builds around push_func f and     *)
(* the list c, or the same with wrapper "none" for a function given to      *)
(* ScheduledTask directly.  kwargs is a sequence of <<key, value>> pairs.   *)
(* scheduler_task is the coroutine _scheduler_loop:                         *)
(*   pc "none"   no coroutine has been created                              *)
(*   pc "top"    at line 128, created or woken up                           *)
(*   pc "await"  inside async with self._lock, awaiting the function of     *)
(*               tasks[i] at line 161; current_time is that of line 130     *)
(*   pc "sleep"  at line 142, until wake                                    *)
(*   pc "done"   finished                                                   *)
(* get_task_stats, remove_task on its own, enable_task, disable_task and    *)
(* create_cron_task are not modelled.                                       *)
(***************************************************************************)
MaxNow == 11
MaxJobs == 1

NoTime == -1

\* asyncio.sleep(60), timedelta(minutes=5) and interval=86400, in minutes
SleepMinutes == 1

RetryMinutes == 5

DayMinutes == 1440

\* push.push_time of the configuration and the push times a caller of
\* update_daily_push_task may give, as minutes of the day
PushTime == 2

UpdateTimes == {2, 4}

\* poster.daily_generation_time, poster.weekly_generation_time and
\* poster.cleanup_time of the configuration
DailyTime == 3

WeeklyTime == 4

CleanupTime == 1

\* push.push_chat_ids of the configuration and the list of chat ids a
\* caller of update_daily_push_task gives
PushChatIds == <<"c1">>

UpdateChatIds == <<"c2">>

\* ScheduledTask, lines 39-50, with the defaults of the fields that are not
\* given; args, which no caller gives, and last_run, which is written and
\* shown by get_task_stats only, are left out
ScheduledTask(name, func, next_run, interval, max_retries) ==
    [name |-> name, func |-> func, kwargs |-> <<>>, next_run |-> next_run,
     interval |-> interval, enabled |-> TRUE, status |-> "pending",
     run_count |-> 0, max_retries |-> max_retries, retry_count |-> 0]

\* lines 228-234: today at push_time, tomorrow when that has passed
next_push_run(push_time, nw) ==
    LET next_run == (nw - (nw % DayMinutes)) + push_time
    IN  IF next_run <= nw THEN next_run + DayMinutes ELSE next_run

create_daily_push_task(push_func, push_time, chat_ids, nw) ==
    ScheduledTask("daily_anime_push",
                  [wrapper |-> "daily_push_wrapper", push_func |-> push_func,
                   chat_ids |-> chat_ids],
                  next_push_run(push_time, nw), DayMinutes, 3)

\* remove_task, lines 94-100: the first task of that name is taken out
RECURSIVE remove_task(_, _)
remove_task(ts, task_name) ==
    IF ts = <<>> THEN <<>>
    ELSE IF Head(ts).name = task_name THEN Tail(ts)
    ELSE <<Head(ts)>> \o remove_task(Tail(ts), task_name)

\* add_daily_push_task, lines 274-278
add_daily_push_task(ts, push_func, push_time, chat_ids, nw) ==
    Append(remove_task(ts, "daily_anime_push"),
           create_daily_push_task(push_func, push_time, chat_ids, nw))

\* get_task, lines 105-108: the index of the first task of that name, 0 for
\* None
get_task(ts, task_name) ==
    LET S == {i \in 1..Len(ts) : ts[i].name = task_name}
    IN  IF S = {} THEN 0 ELSE Min(S)

\* _run_task, lines 165-173: the function returned
run_succeeded(task, nw) ==
    [task EXCEPT !.status = "completed",
                 !.run_count = @ + 1,
                 !.retry_count = 0,
                 !.next_run = IF task.interval # 0 THEN nw + task.interval
                              ELSE NoTime]

\* a variant of run_failed that never disables the task
run_failed_NoDisable(task, nw) ==
    [task EXCEPT !.retry_count = @ + 1,
                 !.status = "pending",
                 !.next_run = nw + RetryMinutes]

\* _run_task, lines 175-185: the function raised an Exception
run_failed(task, nw) ==
    IF task.retry_count + 1 < task.max_retries
    THEN [task EXCEPT !.retry_count = @ + 1,
                      !.status = "pending",
                      !.next_run = nw + RetryMinutes]
    ELSE [task EXCEPT !.retry_count = @ + 1,
                      !.status = "failed",
                      !.enabled = FALSE]

\* task.func(*task.args, **task.kwargs), line 161: daily_push_wrapper takes
\* no parameter, so a call with a keyword argument raises TypeError before
\* the coroutine is created
RaisesAtCall(task) ==
    task.func.wrapper = "daily_push_wrapper" /\ task.kwargs # <<>>

\* the for loop of _scheduler_loop, lines 133-139, from tasks[i] up to the
\* next suspension point: a task that is disabled (134), has no next_run or
\* is not due (138), or is RUNNING (152) is passed over; the task is started
\* (155); a call that raises at once fails the run (175-185) and the
\* loop goes on; otherwise the loop awaits the function of that task.
\* i = 0 in the result: the loop has reached line 142.
RECURSIVE scheduler_loop_from(_, _, _, _)
scheduler_loop_from(ts, i, current_time, nw) ==
    IF i > Len(ts) THEN [tasks |-> ts, i |-> 0, logged |-> {}]
    ELSE IF \/ ~ts[i].enabled
            \/ ts[i].next_run = NoTime
            \/ current_time < ts[i].next_run
            \/ ts[i].status = "running"
    THEN scheduler_loop_from(ts, i + 1, current_time, nw)
    ELSE LET started == [ts[i] EXCEPT !.status = "running"]
         IN  IF RaisesAtCall(ts[i])
             THEN LET r == scheduler_loop_from(
                              [ts EXCEPT ![i] = run_failed(started, nw)],
                              i + 1, current_time, nw)
                  IN  [r EXCEPT !.logged = @ \cup {"task_failed"}]
             ELSE [tasks |-> [ts EXCEPT ![i] = started], i |-> i,
                   logged |-> {}]

\* the loop goes on from tasks[i] after a step that logged the errors logs
LoopGoesOn(ts, i, current_time, logs) ==
    LET r == scheduler_loop_from(ts, i, current_time, now)
    IN  /\ tasks' = r.tasks
        /\ logged' = logs \cup r.logged
        /\ scheduler_task' =
             IF r.i = 0
             THEN [NoTask EXCEPT !.pc = "sleep", !.wake = now + SleepMinutes]
             ELSE [pc |-> "await", i |-> r.i, current_time |-> current_time,
                   wake |-> 0]

\* self._lock is free: _scheduler_loop is not inside its async with block
LockFree == scheduler_task.pc # "await"

\* start, lines 68-72
start_scheduler ==
    IF running
    THEN UNCHANGED <<running, scheduler_task>>
    ELSE /\ running' = TRUE
         /\ scheduler_task' = [NoTask EXCEPT !.pc = "top"]

\* DailyAnimeScheduler.start, called on its own
start ==
    /\ ~running
    /\ start_scheduler
    /\ UNCHANGED <<tasks, now, handled, pushed, logged, notSched>>

\* DailyAnimeScheduler.stop, lines 76-85: the coroutine of the loop is
\* cancelled at its suspension point, the sleep of line 142 or the function
\* of a task at line 161.  CancelledError is not an Exception, so neither
\* daily_push_wrapper (224) nor _run_task (175) catches it: it leaves the
\* async with block, which releases the lock, and ends the loop at line 144.
stop ==
    /\ running
    /\ running' = FALSE
    /\ scheduler_task' = [NoTask EXCEPT !.pc = "done"]
    /\ UNCHANGED <<tasks, now, handled, pushed, logged, notSched>>

\* _scheduler_loop, lines 128-142: one pass begins
scheduler_loop ==
    /\ scheduler_task.pc = "top"
    /\ LoopGoesOn(tasks, 1, now, {})
    /\ UNCHANGED <<running, now, handled, pushed, notSched>>

\* the function of the awaited task returns: a function given to
\* ScheduledTask directly, or daily_push_wrapper after push_func returned
TaskReturns ==
    /\ scheduler_task.pc = "await"
    /\ LET i == scheduler_task.i
       IN  /\ LoopGoesOn([tasks EXCEPT ![i] = run_succeeded(tasks[i], now)],
                         i + 1, scheduler_task.current_time, {})
           /\ pushed' = IF tasks[i].func.wrapper = "daily_push_wrapper"
                        THEN tasks[i].func.chat_ids ELSE pushed
    /\ UNCHANGED <<running, now, handled, notSched>>

\* push_func raises inside daily_push_wrapper, lines 222-225: the wrapper
\* logs the error and returns
PushRaises ==
    /\ scheduler_task.pc = "await"
    /\ LET i == scheduler_task.i
       IN  /\ tasks[i].func.wrapper = "daily_push_wrapper"
           /\ LoopGoesOn([tasks EXCEPT ![i] = run_succeeded(tasks[i], now)],
                         i + 1, scheduler_task.current_time, {"push_failed"})
           /\ pushed' = tasks[i].func.chat_ids
    /\ UNCHANGED <<running, now, handled, notSched>>

\* the function of the awaited task raises an Exception: only a function
\* given to ScheduledTask directly can
TaskRaises ==
    /\ scheduler_task.pc = "await"
    /\ LET i == scheduler_task.i
       IN  /\ tasks[i].func.wrapper = "none"
           /\ LoopGoesOn([tasks EXCEPT ![i] = run_failed(tasks[i], now)],
                         i + 1, scheduler_task.current_time, {"task_failed"})
    /\ UNCHANGED <<running, now, handled, pushed, notSched>>

\* asyncio.sleep(60) of line 142 is over
LoopWakes ==
    /\ scheduler_task.pc = "sleep"
    /\ now >= scheduler_task.wake
    /\ scheduler_task' = [NoTask EXCEPT !.pc = "top"]
    /\ UNCHANGED <<running, tasks, now, handled, pushed, logged, notSched>>

\* a minute passes: not while the loop is ready to run, and not beyond the
\* end of its sleep
Tick ==
    /\ now < MaxNow
    /\ scheduler_task.pc # "top"
    /\ scheduler_task.pc = "sleep" => now < scheduler_task.wake
    /\ now' = now + 1
    /\ UNCHANGED <<running, tasks, scheduler_task, handled, pushed, logged,
                   notSched>>

\* add_task, lines 89-90, with a task built from a function of the caller
\* that is due now, runs once or every two minutes, and has the default
\* max_retries or one of its own
add_task ==
    /\ LockFree
    /\ Cardinality({i \in 1..Len(tasks) : tasks[i].name = "job"}) < MaxJobs
    /\ \E interval \in {0, 2} : \E max_retries \in {1, 3} :
         tasks' = Append(tasks,
                    ScheduledTask("job",
                                  [wrapper |-> "none", push_func |-> "job",
                                   chat_ids |-> <<>>],
                                  now, interval, max_retries))
    /\ UNCHANGED <<running, scheduler_task, now, handled, pushed, logged,
                   notSched>>

\* DailyPushEventHandler.execute, src/plugin.py lines 604-694, with daily
\* push enabled and chat ids configured: the scheduler is started and the
\* push task is added
DailyPushEventHandler_execute ==
    /\ LockFree
    /\ \A h \in 1..Len(handled) : handled[h] # "daily_push_handler"
    /\ start_scheduler
    /\ tasks' = add_daily_push_task(tasks, "daily_anime_push", PushTime,
                                    PushChatIds, now)
    /\ handled' = Append(handled, "daily_push_handler")
    /\ UNCHANGED <<now, pushed, logged, notSched>>

\* PosterSchedulerEventHandler.execute, src/plugin.py lines 731-756, with
\* posters available and enabled: the scheduler is started and the three
\* poster tasks are added
PosterSchedulerEventHandler_execute ==
    /\ LockFree
    /\ \A h \in 1..Len(handled) : handled[h] # "poster_scheduler_handler"
    /\ start_scheduler
    /\ tasks' =
         add_daily_push_task(
           add_daily_push_task(
             add_daily_push_task(tasks, "_generate_daily_poster_wrapper",
                                 DailyTime, <<>>, now),
             "_generate_weekly_poster_wrapper", WeeklyTime, <<>>, now),
           "_cleanup_cache_wrapper", CleanupTime, <<>>, now)
    /\ handled' = Append(handled, "poster_scheduler_handler")
    /\ UNCHANGED <<now, pushed, logged, notSched>>

\* update_daily_push_task, lines 300-303
update_kwargs(task, chat_ids) ==
    IF Len(task.kwargs) > 0
    THEN IF \E k \in 1..Len(task.kwargs) : task.kwargs[k][1] = "chat_ids"
         THEN [k \in 1..Len(task.kwargs) |->
                 IF task.kwargs[k][1] = "chat_ids"
                 THEN <<"chat_ids", chat_ids>> ELSE task.kwargs[k]]
         ELSE Append(task.kwargs, <<"chat_ids", chat_ids>>)
    ELSE << <<"chat_ids", chat_ids>> >>

\* update_daily_push_task, lines 285-305, for a task that exists
update_daily_push_task ==
    /\ LockFree
    /\ LET i == get_task(tasks, "daily_anime_push")
       IN  /\ i # 0
           /\ \E push_time \in UpdateTimes :
                tasks' = [tasks EXCEPT
                            ![i] = [tasks[i] EXCEPT
                                      !.next_run = next_push_run(push_time, now),
                                      !.kwargs = update_kwargs(tasks[i],
                                                               UpdateChatIds)]]
    /\ UNCHANGED <<running, scheduler_task, now, handled, pushed, logged,
                   notSched>>

InitSched == RenderIdle /\ CallsIdle /\ CacheIdle /\ SchedIdle /\ MemIdle

\* the scheduler with tasks of a caller: start, stop, add_task and the loop
NextJobs ==
    \/ start
    \/ stop
    \/ scheduler_loop
    \/ TaskReturns
    \/ TaskRaises
    \/ LoopWakes
    \/ Tick
    \/ add_task

SpecJobs == InitSched /\ [][NextJobs]_vars

\* the scheduler with the tasks of the plugin: the event handlers,
\* update_daily_push_task, stop and the loop
NextPush ==
    \/ stop
    \/ scheduler_loop
    \/ TaskReturns
    \/ PushRaises
    \/ LoopWakes
    \/ Tick
    \/ DailyPushEventHandler_execute
    \/ PosterSchedulerEventHandler_execute
    \/ update_daily_push_task

SpecPush == InitSched /\ [][NextPush]_vars

(***************************************************************************)
(* MemoryCache (src/utils/cache_manager.py).  Its methods are synchronous   *)
(* and are called one after the other, so one call is one step.  mem_cache  *)
(* is the dict _cache as the sequence of its items in insertion order, each *)
(*   [key |-> k, data |-> d, expire_time |-> e, created_time |-> c],        *)
(* times in seconds.  size, keys and get_stats are not modelled.            *)
(***************************************************************************)
MaxTicks == 2

\* the seconds that pass in one step of the clock
TickSeconds == 30

\* default_ttl of __init__, line 45, and the period of _cleanup_expired,
\* line 55
DefaultTtl == 1800

CleanupPeriod == 60

\* the values of max_size a cache is built with
MemSizes == {1, 2, 20}

\* the keys, data and ttl of the calls; 0 stands for ttl = None
MemKeys == {"a", "b"}

MemData == {"u", "v"}

MemTtls == {0, 30}

CacheItem(key, d, expire_time, created_time) ==
    [key |-> key, data |-> d, expire_time |-> expire_time,
     created_time |-> created_time]

\* CacheItem.is_expired, line 35
is_expired(item, time) == time > item.expire_time

\* the position of key in the cache, 0 where it is not a key
PositionOf(cache, key) ==
    LET S == {k \in 1..Len(cache) : cache[k].key = key}
    IN  IF S = {} THEN 0 ELSE Min(S)

\* the items at the positions not in R, in their order
RECURSIVE Without(_, _, _)
Without(cache, R, k) ==
    IF k > Len(cache) THEN <<>>
    ELSE (IF k \in R THEN <<>> ELSE <<cache[k]>>) \o Without(cache, R, k + 1)

\* self._cache[key] = CacheItem(data, expire_time), line 100: a key that is
\* there keeps its position
store(cache, item) ==
    LET k == PositionOf(cache, item.key)
    IN  IF k = 0 THEN Append(cache, item) ELSE [cache EXCEPT ![k] = item]

\* the place of position k in sorted(..., key=created_time), line 79: the
\* sort is stable, so items created at the same time stay in insertion order
SortedRank(cache, k) ==
    Cardinality({q \in 1..Len(cache) :
                    \/ cache[q].created_time < cache[k].created_time
                    \/ cache[q].created_time = cache[k].created_time /\ q <= k})

\* a variant of evict_if_needed that evicts only above max_size
evict_if_needed_Above(cache, max_size) ==
    IF Len(cache) <= max_size THEN cache
    ELSE LET n == Len(cache) \div 10
             evict_count == IF n > 1 THEN n ELSE 1
         IN  Without(cache, {k \in 1..Len(cache) :
                                SortedRank(cache, k) <= evict_count}, 1)

\* _evict_if_needed, lines 71-84
evict_if_needed(cache, max_size) ==
    IF Len(cache) < max_size THEN cache
    ELSE LET n == Len(cache) \div 10
             evict_count == IF n > 1 THEN n ELSE 1
         IN  Without(cache, {k \in 1..Len(cache) :
                                SortedRank(cache, k) <= evict_count}, 1)

\* _cleanup_expired, lines 54-67: the cache and _last_cleanup afterwards
cleanup_expired(cache, last_cleanup, time) ==
    IF time - last_cleanup < CleanupPeriod
    THEN [cache |-> cache, last_cleanup |-> last_cleanup]
    ELSE [cache |-> Without(cache, {k \in 1..Len(cache) :
                                       is_expired(cache[k], time)}, 1),
          last_cleanup |-> time]

\* set, lines 94-102
MemSet ==
    \E key \in MemKeys : \E d \in MemData : \E t \in MemTtls :
      LET ttl == IF t = 0 THEN DefaultTtl ELSE t
          item == CacheItem(key, d, mem_time + ttl, mem_time)
      IN  /\ mem_cache' = evict_if_needed(store(mem_cache, item), mem_max_size)
          /\ mem_written' = [op |-> "set", key |-> key, data |-> d,
                             expire_time |-> mem_time + ttl]
          /\ mem_returned' = [op |-> "set", key |-> key, result |-> "None"]
          /\ UNCHANGED <<mem_max_size, mem_last_cleanup, mem_time, notMem>>

\* get, lines 113-123
MemGet ==
    \E key \in MemKeys :
      LET c == cleanup_expired(mem_cache, mem_last_cleanup, mem_time)
          k == PositionOf(c.cache, key)
      IN  /\ mem_last_cleanup' = c.last_cleanup
          /\ IF k # 0 /\ ~is_expired(c.cache[k], mem_time)
             THEN /\ mem_cache' = c.cache
                  /\ mem_returned' = [op |-> "get", key |-> key,
                                      result |-> c.cache[k].data]
             ELSE /\ mem_cache' = Without(c.cache, {k}, 1)
                  /\ mem_returned' = [op |-> "get", key |-> key,
                                      result |-> "None"]
          /\ UNCHANGED <<mem_max_size, mem_time, mem_written, notMem>>

\* delete, lines 134-138
MemDelete ==
    \E key \in MemKeys :
      LET k == PositionOf(mem_cache, key)
      IN  /\ mem_cache' = Without(mem_cache, {k}, 1)
          /\ mem_written' = [op |-> "delete", key |-> key]
          /\ mem_returned' = [op |-> "delete", key |-> key, result |-> k # 0]
          /\ UNCHANGED <<mem_max_size, mem_last_cleanup, mem_time, notMem>>

\* clear, lines 142-143
MemClear ==
    /\ mem_cache' = <<>>
    /\ mem_written' = [op |-> "clear"]
    /\ mem_returned' = [op |-> "clear", result |-> "None"]
    /\ UNCHANGED <<mem_max_size, mem_last_cleanup, mem_time, notMem>>

\* time.time() moves on
MemTick ==
    /\ mem_time < MaxTicks * TickSeconds
    /\ mem_time' = mem_time + TickSeconds
    /\ UNCHANGED <<mem_max_size, mem_cache, mem_last_cleanup, mem_written,
                   mem_returned, notMem>>

\* the items of n calls of set with ttl = None at second 0, each with a key
\* of its own that no later call uses
PrefillKeys ==
    <<"p1","p2","p3","p4","p5","p6","p7","p8","p9","p10","p11","p12","p13",
      "p14","p15","p16","p17","p18">>

Prefilled(n) ==
    [k \in 1..n |-> CacheItem(PrefillKeys[k], "u", DefaultTtl, 0)]

\* a cache after MemoryCache(max_size=m), lines 46-50, and, for the largest
\* max_size, after max_size - 2 calls of set with keys of their own at
\* second 0
InitMem ==
    /\ RenderIdle /\ CallsIdle /\ CacheIdle /\ SchedIdle
    /\ mem_max_size \in MemSizes
    /\ mem_cache = IF mem_max_size > 2 THEN Prefilled(mem_max_size - 2)
                   ELSE <<>>
    /\ mem_last_cleanup = 0
    /\ mem_time = 0
    /\ mem_written = [op |-> "init"]
    /\ mem_returned = [op |-> "init"]

NextMem == MemSet \/ MemGet \/ MemDelete \/ MemClear \/ MemTick

SpecMem == InitMem /\ [][NextMem]_vars

(***************************************************************************)
(* Properties                                                              *)
(***************************************************************************)
\* the truthiness rule of the specification
SpecTruthy(value) ==
    \/ value.t = "bool" /\ value.v = TRUE
    \/ value.t \in {"str", "list", "dict"} /\ Len(value.v) > 0
    \/ value.t \in {"int", "float"} /\ value.v # 0

OutE2ETrue ==
    <<"<","d","i","v",">","<","h","1",">","2","0","2","4","-","0","1","-",
      "0","1","<","/","h","1",">","<","p",">","A"," ","-"," ","8",".","0",
      "<","/","p",">","<","p",">","B"," ","-"," ","7",".","5","<","/","p",
      ">","<","/","d","i","v",">">>

OutE2EFalse ==
    <<"<","d","i","v",">","<","p",">","N","o"," ","a","n","i","m","e"," ",
      "t","o","d","a","y","<","/","p",">","<","/","d","i","v",">">>

CtxE2ETrue ==
    VDict(<< <<K_has_animes, VBool(TRUE)>>, <<K_date, VStr(S_date)>>,
             <<K_other_animes, VList(<<Animes[1], Animes[2]>>)>> >>)

CtxE2EFalse == VDict(<< <<K_has_animes, VBool(FALSE)>> >>)

\* one <p>title - score</p> per item
RECURSIVE AnimeRows(_)
AnimeRows(l) ==
    IF l = <<>> THEN <<>>
    ELSE <<"<","p",">">> \o DictGet(Head(l), K_title).v \o <<" ","-"," ">>
         \o DictGet(Head(l), K_score).v \o <<"<","/","p",">">>
         \o AnimeRows(Tail(l))

\* the output the end-to-end template is to produce for a context
ExpectE2E(context) ==
    LET h == resolve_keys(<<K_has_animes>>, context)
        d == resolve_keys(<<K_date>>, context)
        l == resolve_keys(<<K_other_animes>>, context)
    IN  IF SpecTruthy(h)
        THEN <<"<","d","i","v",">","<","h","1",">">>
             \o (IF d.t = "str" THEN d.v ELSE <<>>)
             \o <<"<","/","h","1",">">>
             \o (IF l.t = "list" THEN AnimeRows(l.v) ELSE <<>>)
             \o <<"<","/","d","i","v",">">>
        ELSE OutE2EFalse

\* C1: the end-to-end template renders exactly the two documented outputs
\* for the two documented contexts, and for every context the each inside
\* the selected if body contributes one row per item while exactly one of
\* the complementary if/unless blocks contributes.
C1_EndToEnd ==
    (Returned /\ template_content = TplE2E) =>
        /\ data = CtxE2ETrue => content = OutE2ETrue
        /\ data = CtxE2EFalse => content = OutE2EFalse
        /\ content = ExpectE2E(data)

C1_Witness ==
    /\ Returned
    /\ template_content = TplE2E
    /\ data = CtxE2ETrue
    /\ content = OutE2ETrue

\* C3: {{#if x}}A{{/if}} renders "A" iff x is bound to a truthy value, and
\* the empty string otherwise (absent, null, false, empty, 0).
C3_IfTruthiness ==
    (Returned /\ template_content = TplIfX) =>
        content = IF SpecTruthy(resolve_keys(<<K_x>>, data)) THEN <<"A">> ELSE <<>>

C3_Witness ==
    /\ Returned
    /\ template_content = TplIfX
    /\ resolve_keys(<<K_x>>, data) = VInt(-1)
    /\ content = <<"A">>

\* exactly one of two outputs is "A" and the other is empty
ExactlyOneA(r1, r2) ==
    \/ r1 = <<"A">> /\ r2 = <<>>
    \/ r1 = <<>> /\ r2 = <<"A">>

\* C4: for every context and path, exactly one of the if block and the
\* unless block over that path renders "A" and the other renders "".
C4_UnlessComplement ==
    Returned =>
        /\ template_content = TplIfX =>
             ExactlyOneA(content, Render(TplUnlessX, data, FALSE))
        /\ template_content = TplUnlessX =>
             ExactlyOneA(content, Render(TplIfX, data, FALSE))
        /\ template_content = TplIfAB =>
             ExactlyOneA(content, Render(TplUnlessAB, data, FALSE))
        /\ template_content = TplUnlessAB =>
             ExactlyOneA(content, Render(TplIfAB, data, FALSE))

C4_Witness ==
    /\ Returned
    /\ template_content = TplUnlessX
    /\ resolve_keys(<<K_x>>, data) = VInt(0)
    /\ content = <<"A">>

\* the name of every item followed by a comma
RECURSIVE NamesOf(_)
NamesOf(l) ==
    IF l = <<>> THEN <<>>
    ELSE (IF Head(l).t = "dict" /\ DictHas(Head(l), K_name)
          THEN DictGet(Head(l), K_name).v ELSE <<>>)
         \o <<",">> \o NamesOf(Tail(l))

\* C5: {{#each items}}{{this.name}},{{/each}} renders "" when items is not
\* a list or is empty, and otherwise one expansion of the body per item, in
\* list order, with nothing between them.
C5_EachExpansion ==
    (Returned /\ template_content = TplEachName) =>
        LET v == resolve_keys(<<K_items>>, data)
        IN  content = IF v.t = "list" THEN NamesOf(v.v) ELSE <<>>

C5_Witness ==
    /\ Returned
    /\ template_content = TplEachName
    /\ content = <<"a", ",", "b", ",">>

\* the output the claim gives for a body of conditionals evaluated per item:
\* Y or N by the item's ok, then a semicolon
RECURSIVE OkRows(_, _, _)
OkRows(context, l, i) ==
    IF i > Len(l.v) THEN <<>>
    ELSE (IF SpecTruthy(resolve_keys(<<K_ok>>, item_context(context, l, i - 1)))
          THEN <<"Y">> ELSE <<"N">>)
         \o <<";">> \o OkRows(context, l, i + 1)

\* F for an item whose scope has first true, a comma unless last is true
RECURSIVE FirstRows(_, _, _)
FirstRows(context, l, i) ==
    IF i > Len(l.v) THEN <<>>
    ELSE LET scope == item_context(context, l, i - 1)
         IN  (IF SpecTruthy(resolve_keys(<<K_first>>, scope)) THEN <<"F">> ELSE <<>>)
             \o (IF SpecTruthy(resolve_keys(<<K_last>>, scope)) THEN <<>> ELSE <<",">>)
             \o FirstRows(context, l, i + 1)

\* the text a scalar or absent value is rendered as
Shown(value) ==
    CASE value.t = "str" -> value.v
      [] value.t = "int" -> IntToStr(value.v)
      [] value.t = "float" -> FloatToStr(value.v)
      [] value.t = "bool" -> IF value.v THEN <<"t","r","u","e">>
                                        ELSE <<"f","a","l","s","e">>
      [] value.t = "none" -> <<>>
      [] OTHER -> PyRepr(value)

\* the k of every item's scope followed by a semicolon
RECURSIVE ScopeKRows(_, _, _)
ScopeKRows(context, l, i) ==
    IF i > Len(l.v) THEN <<>>
    ELSE Shown(resolve_keys(<<K_k>>, item_context(context, l, i - 1)))
         \o <<";">> \o ScopeKRows(context, l, i + 1)

\* C2 (as claimed): a conditional inside an each body is evaluated against
\* the scope of each item, and an each inside a selected if body is expanded
\* against the context of the if.
C2_NestedOtherKind ==
    Returned =>
        LET l == resolve_keys(<<K_items>>, data)
        IN  l.t = "list" =>
              /\ template_content = TplEachIfOk => content = OkRows(data, l, 1)
              /\ template_content = TplEachIfFirst => content = FirstRows(data, l, 1)
              /\ template_content = TplIfEach =>
                   content = IF SpecTruthy(resolve_keys(<<K_go>>, data))
                             THEN ScopeKRows(data, l, 1) ELSE <<>>

\* the escaping of one character
EscapeChar(c) ==
    CASE c = "&" -> <<"&","a","m","p",";">>
      [] c = "<" -> <<"&","l","t",";">>
      [] c = ">" -> <<"&","g","t",";">>
      [] c = "\"" -> <<"&","q","u","o","t",";">>
      [] OTHER -> <<c>>

\* every character of s escaped once
RECURSIVE SpecEscape(_)
SpecEscape(s) == IF s = <<>> THEN <<>> ELSE EscapeChar(Head(s)) \o SpecEscape(Tail(s))

\* C6 (as claimed): for every string s, {{t}} with t = s renders s with
\* every &, <, > and " escaped exactly once, and the output has no raw
\* <, > or ".
C6_Escaping ==
    (Returned /\ template_content = TplVarT) =>
        LET s == resolve_keys(<<K_t>>, data).v
        IN  /\ content = SpecEscape(s)
            /\ \A k \in 1..Len(content) : content[k] \notin {"<", ">", "\""}

\* text contains neither {{ nor }}
NoDoubleBrace(text) == FindLit(text, 1, OPEN2) = 0 /\ FindLit(text, 1, CLOSE2) = 0

\* every brace of text, from position i on, is part of a complete marker
\* {{...}} whose interior has no brace
RECURSIVE WellFormedFrom(_, _)
WellFormedFrom(text, i) ==
    LET B == {j \in i..Len(text) : text[j] \in {"{", "}"}}
        j == Min(B)
        I == {q \in (j + 2)..Len(text) : text[q] \in {"{", "}"}}
        q == Min(I)
    IN  \/ B = {}
        \/ /\ StartsWithAt(text, j, OPEN2)
           /\ I # {}
           /\ StartsWithAt(text, q, CLOSE2)
           /\ WellFormedFrom(text, q + 2)

WellFormedBraces(text) == WellFormedFrom(text, 1)

\* the text the cleanup pass was applied to
BeforeCleanup ==
    IF FellBack THEN template_content
    ELSE process_template(template_content, data)

\* C7 (as claimed): the returned string contains no {{ and no }}, whatever
\* the template and the context.
C7_NoMarkerSyntax == pc = "done" => NoDoubleBrace(content)

\* C7 (amended): the returned string contains no {{ and no }} when every
\* brace of the text that enters the cleanup pass belongs to a complete
\* marker {{...}} with a brace-free interior.
C7_WellFormedStripped ==
    (pc = "done" /\ WellFormedBraces(BeforeCleanup)) => NoDoubleBrace(content)

C7_Witness ==
    /\ Returned
    /\ WellFormedBraces(BeforeCleanup)
    /\ NextMarker(BeforeCleanup, 1) # 0
    /\ Len(content) > 0
    /\ NoDoubleBrace(content)

OutE2EFallback ==
    <<"<","d","i","v",">","<","h","1",">","<","/","h","1",">","<","p",">",
      " ","-"," ","<","/","p",">","<","p",">","N","o"," ","a","n","i","m",
      "e"," ","t","o","d","a","y","<","/","p",">","<","/","d","i","v",">">>

\* C8: a call in which the resolver raises still returns, and what it
\* returns is the original template with its {{...}} markers removed: no
\* value of the context is in it.
C8_FaultFallsBack ==
    FellBack =>
        /\ content = CleanupPass(template_content)
        /\ template_content = TplE2E => content = OutE2EFallback
        /\ template_content = TplVarT => content = <<>>
        /\ template_content = TplIfX => content = <<"A">>

C8_Witness ==
    /\ FellBack
    /\ template_content = TplE2E
    /\ data = CtxE2ETrue
    /\ content = OutE2EFallback

\* every item of the list is a mapping with the key k
AllHaveK(l) == \A i \in 1..Len(l.v) : l.v[i].t = "dict" /\ DictHas(l.v[i], K_k)

\* no item of the list is a mapping with one of the given keys
NoneHas(l, keys) ==
    \A i \in 1..Len(l.v) :
        l.v[i].t = "dict" => \A n \in 1..Len(keys) : ~DictHas(l.v[i], keys[n])

\* value|value; for the k of every item
RECURSIVE ItemKRows(_)
ItemKRows(l) ==
    IF l = <<>> THEN <<>>
    ELSE DictGet(Head(l), K_k).v \o <<"|">> \o DictGet(Head(l), K_k).v
         \o <<";">> \o ItemKRows(Tail(l))

\* C9 (as claimed): in the body of an each over mapping items, {{k}} and
\* {{this.k}} both give the item's value for its key k.
C9_FlattenedAndThis ==
    (Returned /\ template_content = TplEachK) =>
        LET l == resolve_keys(<<K_items>>, data)
        IN  (l.t = "list" /\ AllHaveK(l)) => content = ItemKRows(l.v)

\* C9 (amended): the same, for items that have no key named this; such a
\* key replaces the binding of this to the item.
C9_FlattenedAndThisUnshadowed ==
    (Returned /\ template_content = TplEachK) =>
        LET l == resolve_keys(<<K_items>>, data)
        IN  (l.t = "list" /\ AllHaveK(l) /\ NoneHas(l, <<K_this>>))
                => content = ItemKRows(l.v)

C9_Witness ==
    /\ Returned
    /\ template_content = TplEachK
    /\ resolve_keys(<<K_items>>, data) = VList(<<Items[1], Items[2]>>)
    /\ resolve_keys(<<K_k>>, data) = VStr(S_o)
    /\ content = <<"v","|","v",";","w","|","w",";">>

\* item@i:first:last; for every item, i counted from 0
RECURSIVE IdxRows(_, _)
IdxRows(l, i) ==
    IF i > Len(l) THEN <<>>
    ELSE Shown(l[i]) \o <<"@">> \o IntToStr(i - 1) \o <<":">>
         \o (IF i = 1 THEN <<"t","r","u","e">> ELSE <<"f","a","l","s","e">>)
         \o <<":">>
         \o (IF i = Len(l) THEN <<"t","r","u","e">> ELSE <<"f","a","l","s","e">>)
         \o <<";">> \o IdxRows(l, i + 1)

\* C10 (as claimed): the scope of the i-th of n items binds this to the
\* item, index to i, first to i = 0 and last to i = n - 1.
C10_LoopBindings ==
    (Returned /\ template_content = TplEachIdx) =>
        LET l == resolve_keys(<<K_items>>, data)
        IN  (l.t = "list" /\ Len(l.v) > 0) => content = IdxRows(l.v, 1)

\* C10 (amended): the same, for items that are not mappings with a key
\* named this, index, first or last; such a key replaces the binding.
C10_LoopBindingsUnshadowed ==
    (Returned /\ template_content = TplEachIdx) =>
        LET l == resolve_keys(<<K_items>>, data)
        IN  (l.t = "list" /\ Len(l.v) > 0
             /\ NoneHas(l, <<K_this, K_index, K_first, K_last>>))
                => content = IdxRows(l.v, 1)

C10_Witness ==
    /\ Returned
    /\ template_content = TplEachIdx
    /\ resolve_keys(<<K_items>>, data) = VList(<<Items[3], Items[3], Items[3]>>)
    /\ content =
        <<"5","@","0",":","t","r","u","e",":","f","a","l","s","e",";","5",
          "@","1",":","f","a","l","s","e",":","f","a","l","s","e",";","5",
          "@","2",":","f","a","l","s","e",":","t","r","u","e",";">>

\* what a path gives that could not be followed
Absent == [t |-> "absent"]

\* one segment of a path: the value under key k where v is a mapping that has
\* the key k, and absent otherwise
Segment(v, k) ==
    IF v.t = "dict" /\ \E i \in 1..Len(v.v) : v.v[i][1] = k
    THEN v.v[CHOOSE i \in 1..Len(v.v) : v.v[i][1] = k][2]
    ELSE Absent

AtABC == Segment(Segment(Segment(data, K_a), K_b), K_c)

AtA0 == Segment(Segment(data, K_a), K_0)

PathShown(v) == IF v.t \in {"absent", "none"} THEN <<>> ELSE Shown(v)

\* C11: a dotted path is followed segment by segment through mappings only: a
\* missing key, or a scalar, a list or None on the way, makes the path absent,
\* which renders as the empty string and is false in conditions; a list
\* element is not reached by a segment
C11_PathResolution ==
    Returned =>
      /\ template_content = TplVarABC => content = PathShown(AtABC)
      /\ template_content = TplIfABC =>
           content = (IF SpecTruthy(AtABC) THEN <<"A">> ELSE <<>>)
      /\ template_content = TplUnlessABC =>
           content = (IF SpecTruthy(AtABC) THEN <<>> ELSE <<"A">>)
      /\ template_content = TplVarA0 => content = PathShown(AtA0)
      /\ /\ template_content \in {TplVarABC, TplVarA0}
         /\ \/ Segment(data, K_a).t \in {"list", "str", "int", "none"}
            \/ Segment(Segment(data, K_a), K_b).t \in {"list", "str", "int"}
         => content = <<>>

\* {{a.b.c}} where a.b is a list whose element is a mapping with the key c
C11_Witness ==
    /\ Returned
    /\ template_content = TplVarABC
    /\ Segment(Segment(data, K_a), K_b) = VList(<<VDict(Wrap(<<K_c>>, VStr(S_x)))>>)
    /\ content = <<>>

DecimalDigits == <<"0","1","2","3","4","5","6","7","8","9">>

\* the number a sequence of decimal digits denotes
RECURSIVE DigitsValue(_)
DigitsValue(s) ==
    IF s = <<>> THEN 0
    ELSE DigitsValue(SubSeq(s, 1, Len(s) - 1)) * 10
         + (CHOOSE d \in 0..9 : DecimalDigits[d + 1] = s[Len(s)])

\* s is the decimal numeral of the natural number n, without leading zeros
IsNumeralOf(s, n) ==
    /\ s # <<>>
    /\ \A k \in 1..Len(s) : \E d \in 1..10 : DecimalDigits[d] = s[k]
    /\ Len(s) > 1 => s[1] # "0"
    /\ DigitsValue(s) = n

\* s is the decimal string of the integer n
IsDecimalOf(s, n) ==
    IF n < 0 THEN s # <<>> /\ s[1] = "-" /\ IsNumeralOf(Tail(s), 0 - n)
    ELSE IsNumeralOf(s, n)

\* s is the decimal string of m / 10: sign, integer part, point, one digit
IsDecimalOfTenths(s, m) ==
    LET a == IF m < 0 THEN 0 - m ELSE m
        u == IF m < 0 /\ s # <<>> THEN Tail(s) ELSE s
    IN  /\ m < 0 => s # <<>> /\ s[1] = "-"
        /\ Len(u) >= 3
        /\ u[Len(u) - 1] = "."
        /\ IsNumeralOf(SubSeq(u, 1, Len(u) - 2), a \div 10)
        /\ IsNumeralOf(<<u[Len(u)]>>, a % 10)

\* C12: {{x}} is replaced by the empty string where x is absent or None, by
\* the word true or false where x is a bool, and by the decimal string of x
\* where x is a number
C12_ScalarRendering ==
    Returned /\ template_content = TplVarX =>
      LET v == Segment(data, K_x)
      IN  /\ v.t \in {"absent", "none"} => content = <<>>
          /\ v.t = "bool" =>
               content = (IF v.v THEN <<"t","r","u","e">>
                                 ELSE <<"f","a","l","s","e">>)
          /\ v.t = "int" => IsDecimalOf(content, v.v)
          /\ v.t = "float" => IsDecimalOfTenths(content, v.v)

\* {{x}} with x = False has been rendered
C12_Witness ==
    /\ Returned
    /\ template_content = TplVarX
    /\ Segment(data, K_x) = VBool(FALSE)
    /\ content = <<"f","a","l","s","e">>

\* text without its marker tokens: from the left, each {{ that is followed,
\* with no } in between, by }} is dropped together with what it encloses
RECURSIVE DropMarkers(_)
DropMarkers(text) ==
    IF text = <<>> THEN <<>>
    ELSE LET E == {j \in 3..(Len(text) - 1) :
                     /\ text[j] = "}" /\ text[j + 1] = "}"
                     /\ \A k \in 3..(j - 1) : text[k] # "}"}
         IN  IF Len(text) >= 4 /\ text[1] = "{" /\ text[2] = "{" /\ E # {}
             THEN DropMarkers(SubSeq(text, (CHOOSE j \in E : TRUE) + 2, Len(text)))
             ELSE <<text[1]>> \o DropMarkers(Tail(text))

\* C13: markers that are no recognized directive and no path (an unknown
\* #kind, a stray closing tag, a block opener without its closer) are no
\* error: the marker tokens are removed, the text between and around them is
\* kept
C13_UnknownMarkersStripped ==
    pc = "done" =>
      /\ template_content = TplForeach => content = <<"y">>
      /\ template_content = TplStrayClose => content = <<"a","b">>
      /\ template_content = TplNoCloser => content = <<"a","b">>
      /\ ~CallsResolver(template_content) =>
           content = DropMarkers(template_content)

\* {{#foreach x}}y{{/foreach}} has been rendered
C13_Witness ==
    /\ pc = "done"
    /\ template_content = TplForeach
    /\ data = VDict(<<>>)
    /\ content = <<"y">>

\* text holds a marker: {{, then characters other than }, then }}
HasMarker(text) ==
    \E i \in 1..Len(text) : \E j \in (i + 2)..(Len(text) - 1) :
      /\ text[i] = "{" /\ text[i + 1] = "{"
      /\ text[j] = "}" /\ text[j + 1] = "}"
      /\ \A k \in (i + 2)..(j - 1) : text[k] # "}"

\* C14: a template that holds no marker is rendered to itself, whatever the
\* context
C14_PlainTextIdentity ==
    pc = "done" /\ ~HasMarker(template_content) => content = template_content

\* a template of braces and text that form no marker has been rendered
C14_Witness ==
    /\ pc = "done"
    /\ template_content = <<"{","{","a","}">>
    /\ content = template_content

StepsAgree ==
    pc = "done" => content = Render(template_content, data, fault)

\* before the return a pass or a return is due
NotBlocked ==
    \/ pc = "done"
    \/ /\ pc = "try"
       /\ frames # <<>>
       /\ Top.phase \in {"if", "unless", "each", "item", "var", "ret"}
    \/ pc = "cleanup" /\ frames # <<>> /\ Top.phase = "cleanup"

\* C17: every call returns: each pass is one substitution pass over its text,
\* a block body is processed as a text of its own, and text that an expansion
\* produced (a value that holds markers, values that name each other) is not
\* expanded over and over; in every state before the return a step is due
C17_Terminates == [](NotBlocked) /\ <>(pc = "done")

\* a call has returned whose value of t is the marker of p, with p the marker
\* of t
C17_Witness ==
    /\ pc = "done"
    /\ frames = <<>>
    /\ template_content = TplIfT
    /\ Segment(data, K_t) = VStr(S_MarkP)
    /\ Segment(data, K_p) = VStr(S_MarkT)
    /\ content = <<>>

\* C18: a block opener is paired with the nearest closing tag of its kind that
\* follows it: in {{#if a}}{{#if b}}X{{/if}}{{/if}} the outer block closes at
\* the inner {{/if}}, and the output is X where a is truthy and empty where a
\* is falsy, whatever b is; likewise for unless and each
C18_NotDepthAware ==
    Returned =>
      LET a == Segment(data, K_a)
      IN  /\ template_content = TplIfIf =>
               content = (IF SpecTruthy(a) THEN <<"X">> ELSE <<>>)
          /\ template_content = TplUnlessUnless =>
               content = (IF SpecTruthy(a) THEN <<>> ELSE <<"X">>)
          /\ template_content = TplEachEach =>
               content = (IF a.t = "list" THEN [k \in 1..Len(a.v) |-> "X"]
                          ELSE <<>>)

\* {{#if a}}{{#if b}}X{{/if}}{{/if}} has been rendered with a truthy, b falsy
C18_Witness ==
    /\ Returned
    /\ template_content = TplIfIf
    /\ Segment(data, K_a) = VInt(1)
    /\ Segment(data, K_b) = VBool(FALSE)
    /\ content = <<"X">>

\* n copies of the text s
RECURSIVE Copies(_, _)
Copies(s, n) == IF n = 0 THEN <<>> ELSE s \o Copies(s, n - 1)

\* C19 (as claimed): {{t}} inside a selected if or unless body, or inside an
\* each body, puts out the escaped value of t once (once per item), also
\* where the value holds markers, so that the output does not depend on any
\* other key of the context
C19_ValueNotReinterpreted ==
    Returned =>
      LET s == Segment(data, K_t).v
          n == Len(Segment(data, K_items).v)
      IN  /\ template_content \in {TplIfT, TplUnlessT} => content = SpecEscape(s)
          /\ template_content = TplEachT => content = Copies(SpecEscape(s), n)

\* the innermost call is at a with self._lock statement
WaitsForLock ==
    \/ At("_save_cache_index", "begin")
    \/ At("delete_poster", "begin")
    \/ At("save_poster", "index")
    \/ At("get_poster", "begin")

\* C20 (as claimed): get_poster returns without blocking: where the file of
\* the indexed poster is missing, and where the poster is older than
\* max_days, no call it makes waits for the lock that get_poster itself is
\* holding
C20_GetPosterNeverBlocks == ~(WaitsForLock /\ lock = "get_poster")

(***************************************************************************)
(* Properties of the scheduler                                             *)
(***************************************************************************)
\* C21 (as claimed): a task is in status RUNNING only while the loop is
\* awaiting its function, whatever start, stop and the runs of the tasks did
\* before; so a task whose run was cancelled by stop is not left RUNNING and
\* is run again after the next start.
C21_RunningIsExecuting ==
    \A i \in 1..Len(tasks) :
        tasks[i].status = "running"
            => scheduler_task.pc = "await" /\ scheduler_task.i = i

\* C22 (as claimed): when push_func raises during a run of the daily push
\* task, the run counts as failed: retry_count is incremented, the status is
\* not COMPLETED, and next_run is five minutes ahead, not an interval ahead.
C22_PushFailureRetried ==
    [][(scheduler_task.pc = "await" /\ "push_failed" \in logged') =>
          LET i == scheduler_task.i
          IN  /\ tasks'[i].retry_count = tasks[i].retry_count + 1
              /\ tasks'[i].status # "completed"
              /\ tasks'[i].next_run = now + RetryMinutes]_vars

\* the tasks whose wrapper calls push_func
Scheduled(push_func) ==
    {i \in 1..Len(tasks) : tasks[i].func.push_func = push_func}

\* C23 (as claimed): once PosterSchedulerEventHandler.execute has returned,
\* the scheduler holds a task for the daily poster, one for the weekly
\* poster and one for the cache cleanup, each due at its configured time,
\* and still holds the daily push task if DailyPushEventHandler.execute had
\* returned before.
C23_PosterTasksScheduled ==
    (handled # <<>> /\ handled[Len(handled)] = "poster_scheduler_handler"
     /\ now = 0) =>
        /\ \E i \in Scheduled("_generate_daily_poster_wrapper") :
             tasks[i].next_run = DailyTime
        /\ \E i \in Scheduled("_generate_weekly_poster_wrapper") :
             tasks[i].next_run = WeeklyTime
        /\ \E i \in Scheduled("_cleanup_cache_wrapper") :
             tasks[i].next_run = CleanupTime
        /\ Len(handled) = 2 => Scheduled("daily_anime_push") # {}

\* the chat ids update_daily_push_task has given tasks[i]
UpdatedChatIds(i) ==
    {tasks[i].kwargs[k][2] :
        k \in {n \in 1..Len(tasks[i].kwargs) : tasks[i].kwargs[n][1] = "chat_ids"}}

\* C25 (as claimed): the run of a daily push task that
\* update_daily_push_task has been applied to ends with status COMPLETED and
\* the task enabled, and has pushed to the chat ids of the update.
C25_UpdatedTaskRuns ==
    [][\A i \in 1..Len(tasks) :
          (/\ scheduler_task.pc \in {"top", "await"}
           /\ scheduler_task'.pc \in {"await", "sleep"}
           /\ tasks[i].func.push_func = "daily_anime_push"
           /\ UpdatedChatIds(i) # {}
           /\ tasks'[i] # tasks[i]
           /\ tasks'[i].status # "running")
          => /\ tasks'[i].status = "completed"
             /\ tasks'[i].enabled
             /\ pushed' \in UpdatedChatIds(i)]_vars

\* the loop ends the run of tasks[i] in this step
RunEnds(i) ==
    /\ i <= Len(tasks')
    /\ tasks'[i] # tasks[i]
    /\ tasks'[i].status # "running"

\* the loop begins the run of tasks[i] in this step
RunBegins(i) ==
    /\ i <= Len(tasks')
    /\ tasks'[i].status = "running"
    /\ tasks[i].status # "running"

\* what the retry protocol allows a step to do with the tasks
RetryProtocol ==
    \A i \in 1..Len(tasks) :
        LET t == tasks[i]
            u == tasks'[i]
        IN  /\ RunBegins(i) =>
                t.enabled /\ t.next_run # NoTime /\ t.next_run <= now
            /\ RunEnds(i) =>
                /\ t.enabled
                /\ u.status \in {"pending", "failed", "completed"}
                /\ u.status \in {"pending", "failed"} =>
                     /\ u.retry_count = t.retry_count + 1
                     /\ u.run_count = t.run_count
                     /\ IF u.retry_count < t.max_retries
                        THEN /\ u.status = "pending"
                             /\ u.enabled
                             /\ u.next_run = now + RetryMinutes
                        ELSE ~u.enabled
                /\ u.status = "completed" =>
                     /\ u.retry_count = 0
                     /\ u.run_count = t.run_count + 1
                     /\ u.enabled
                     /\ u.next_run = IF t.interval # 0 THEN now + t.interval
                                     ELSE NoTime

\* the runs of a task that has never succeeded are counted by retry_count:
\* there are at most max_retries of them, and exactly max_retries once the
\* task is disabled; a task without interval succeeds at most once
RetryCounts ==
    \A i \in 1..Len(tasks) :
        /\ tasks[i].retry_count <= tasks[i].max_retries
        /\ ~tasks[i].enabled => tasks[i].retry_count = tasks[i].max_retries
        /\ tasks[i].interval = 0 => tasks[i].run_count <= 1

Lookup(context, l, i, key) ==
    LET item == l.v[i]
    IN  IF item.t = "dict" /\ DictHas(item, key) THEN DictGet(item, key)
        ELSE IF key = K_this THEN item
        ELSE IF key = K_index THEN VInt(i - 1)
        ELSE IF key = K_first THEN VBool(i = 1)
        ELSE IF key = K_last THEN VBool(i = Len(l.v))
        ELSE IF DictHas(context, key) THEN DictGet(context, key)
        ELSE VNone

\* this@index:first:last; for every item, each looked up by priority
RECURSIVE OverlayIdxRows(_, _, _)
OverlayIdxRows(context, l, i) ==
    IF i > Len(l.v) THEN <<>>
    ELSE Shown(Lookup(context, l, i, K_this)) \o <<"@">>
         \o Shown(Lookup(context, l, i, K_index)) \o <<":">>
         \o Shown(Lookup(context, l, i, K_first)) \o <<":">>
         \o Shown(Lookup(context, l, i, K_last)) \o <<";">>
         \o OverlayIdxRows(context, l, i + 1)

\* k|this.k; for every item, k and this looked up by priority
RECURSIVE OverlayKRows(_, _, _)
OverlayKRows(context, l, i) ==
    IF i > Len(l.v) THEN <<>>
    ELSE Shown(Lookup(context, l, i, K_k)) \o <<"|">>
         \o Shown(resolve_keys(<<K_k>>, Lookup(context, l, i, K_this)))
         \o <<";">> \o OverlayKRows(context, l, i + 1)

\* C26: in the body of an each, a key of a mapping item named this, index,
\* first or last, or named like a key of the enclosing context, takes the
\* place of the loop binding or of the enclosing value; a loop binding takes
\* the place of an enclosing value of its name.
C26_OverlayOrder ==
    (Returned /\ template_content \in {TplEachIdx, TplEachK}) =>
        LET l == resolve_keys(<<K_items>>, data)
        IN  (l.t = "list" /\ Len(l.v) > 0) =>
                content = IF template_content = TplEachIdx
                          THEN OverlayIdxRows(data, l, 1)
                          ELSE OverlayKRows(data, l, 1)

\* the second item has the keys this, index, first and last
C26_Witness ==
    /\ Returned
    /\ template_content = TplEachIdx
    /\ resolve_keys(<<K_items>>, data) = VList(<<Items[3], Items[4], Items[3]>>)
    /\ content =
        <<"5","@","0",":","t","r","u","e",":","f","a","l","s","e",";","{",
          "'","k","'",":"," ","'","w","'","}","@","7",":","t","r","u","e",
          ":","t","r","u","e",";","5","@","2",":","f","a","l","s","e",":",
          "t","r","u","e",";">>

\* j,index; for every item, each looked up by priority
RECURSIVE LeakRows(_, _, _)
LeakRows(context, l, i) ==
    IF i > Len(l.v) THEN <<>>
    ELSE Shown(Lookup(context, l, i, K_j)) \o <<",">>
         \o Shown(Lookup(context, l, i, K_index)) \o <<";">>
         \o LeakRows(context, l, i + 1)

\* C27: a key of one item and the bindings this, index, first and last are
\* not visible in the body of a later item that lacks the key, where the
\* reference gives the value of the enclosing context, nor after the each
\* block, where every reference gives the value of the enclosing context.
C27_ScopeDoesNotLeak ==
    (Returned /\ template_content = TplEachLeak) =>
        LET l == resolve_keys(<<K_items>>, data)
        IN  content = LeakRows(data, l, 1) \o <<"|">>
                      \o Shown(resolve_keys(<<K_j>>, data))
                      \o Shown(resolve_keys(<<K_index>>, data))
                      \o Shown(resolve_keys(<<K_first>>, data))
                      \o Shown(resolve_keys(<<K_last>>, data))
                      \o Shown(resolve_keys(<<K_this>>, data))
                      \o Shown(resolve_keys(<<K_name>>, data))

\* the first item has the key j, the later items lack it, the enclosing
\* context has j and index
C27_Witness ==
    /\ Returned
    /\ template_content = TplEachLeak
    /\ resolve_keys(<<K_items>>, data) = VList(<<Items[2], Items[1], Items[3]>>)
    /\ resolve_keys(<<K_j>>, data) = VStr(S_o)
    /\ content =
        <<"1",",","0",";","o",",","1",";","o",",","2",";","|","o","9">>

(***************************************************************************)
(* Properties of the memory cache                                          *)
(***************************************************************************)
\* the step is a call of set, of get
SetStep == mem_returned'.op = "set" /\ mem_time' = mem_time

GetStep == mem_returned'.op = "get" /\ mem_time' = mem_time

\* after a completed set the cache holds at most max_size items
SizeBound == mem_returned.op = "set" => Len(mem_cache) <= mem_max_size

\* a set that brings the cache to max_size items evicts max(1, size // 10)
\* of them, none of them created after an item that stays
EvictsOldest ==
    SetStep =>
        LET key == mem_returned'.key
            n == Len(mem_cache) + IF PositionOf(mem_cache, key) = 0 THEN 1 ELSE 0
            evict_count == IF n \div 10 > 1 THEN n \div 10 ELSE 1
            gone == {q \in 1..Len(mem_cache) :
                        /\ mem_cache[q].key # key
                        /\ PositionOf(mem_cache', mem_cache[q].key) = 0}
        IN  IF n >= mem_max_size
            THEN /\ Len(mem_cache') = n - evict_count
                 /\ \A q \in gone : \A k \in 1..Len(mem_cache') :
                      mem_cache[q].created_time <= mem_cache'[k].created_time
            ELSE /\ Len(mem_cache') = n
                 /\ gone = {}

\* C28: after every completed set the number of items is at most max_size,
\* and a set that reaches the bound evicts the max(1, size // 10) items with
\* the oldest creation time.
C28_SizeBound == [](SizeBound) /\ [][EvictsOldest]_vars

\* a cache with max_size 20 after the set that brought it to 20 items: the
\* two oldest items are gone
C28_Witness ==
    /\ mem_returned.op = "set"
    /\ mem_max_size = 20
    /\ Len(mem_cache) = 18
    /\ PositionOf(mem_cache, "p1") = 0
    /\ PositionOf(mem_cache, "p2") = 0
    /\ PositionOf(mem_cache, "p3") = 1
    /\ PositionOf(mem_cache, mem_returned.key) = 18

\* C29 (as claimed): a get of the key of the last set, with no delete or
\* clear since and the ttl not elapsed, returns the data of that set, for
\* every max_size >= 1; any other get that finds no item or an expired one
\* returns None and leaves no item under the key.
C29_ReadYourWrite ==
    [][GetStep =>
          LET key == mem_returned'.key
              k == PositionOf(mem_cache, key)
          IN  /\ (/\ mem_written.op = "set"
                  /\ mem_written.key = key
                  /\ mem_time <= mem_written.expire_time)
                    => mem_returned'.result = mem_written.data
              /\ (k = 0 \/ is_expired(mem_cache[k], mem_time))
                    => /\ mem_returned'.result = "None"
                       /\ PositionOf(mem_cache', key) = 0]_vars

(***************************************************************************)
(* Properties of the marker grammar                                        *)
(***************************************************************************)
\* p is a path of the documented grammar: segments [A-Za-z0-9_]+ joined by .
GrammarPath(p) ==
    /\ IsPath(p)
    /\ \A k \in 1..Len(p) : p[k] \in AsciiWordChars \/ p[k] = "."

\* inner, the text between {{ and }}, makes a marker of the documented
\* grammar: path, #if path, #unless path, #each path, /if, /unless, /each
GrammarMarker(inner) ==
    \/ GrammarPath(inner)
    \/ inner \in {<<"/","i","f">>, <<"/","u","n","l","e","s","s">>,
                  <<"/","e","a","c","h">>}
    \/ \E kw \in {<<"#","i","f"," ">>, <<"#","u","n","l","e","s","s"," ">>,
                  <<"#","e","a","c","h"," ">>} :
         /\ StartsWithAt(inner, 1, kw)
         /\ GrammarPath(SubSeq(inner, Len(kw) + 1, Len(inner)))

\* text from position i on, without the markers that are not of the
\* documented grammar
RECURSIVE KeepGrammarMarkers(_, _)
KeepGrammarMarkers(text, i) ==
    IF i > Len(text) THEN <<>>
    ELSE LET j == NonCloseRunEnd(text, i + 2)
         IN  IF StartsWithAt(text, i, <<"{","{">>) /\ StartsWithAt(text, j, <<"}","}">>)
             THEN (IF GrammarMarker(SubSeq(text, i + 2, j - 1))
                   THEN SubSeq(text, i, j + 1) ELSE <<>>)
                  \o KeepGrammarMarkers(text, j + 2)
             ELSE <<text[i]>> \o KeepGrammarMarkers(text, i + 1)

\* C30 (as claimed): only the markers of the documented grammar (ASCII path
\* segments joined by ".", no whitespace, brackets or operators in or around
\* the path) are interpreted; every other marker is not resolved and is
\* removed, so that the result is the one of the template without them.
C30_OnlyGrammarMarkers ==
    (pc = "done" /\ ~fault) =>
        content = CleanupPass(process_template(
                      KeepGrammarMarkers(template_content, 1), data))

====
